---- MODULE Spec2Model ----
(***************************************************************************)
(* Reservation admission control, reservation status lifecycle, the        *)
(* notification side effects, orders and their items, the staff order      *)
(* status set, recorded payments, payment requests, the payment gateway    *)
(* callback and status poll, the floor plan and the staff table routes of  *)
(* the restaurant reservation API (src/index.js), modelled at the          *)
(* granularity of the SQL statements each route handler awaits: every      *)
(* statement is one atomic step of the database, and the handlers of       *)
(* concurrent requests interleave between their statements.                *)
(***************************************************************************)
EXTENDS Integers, Sequences, FiniteSets, Bags, TLC

VARIABLES
  reservation,   \* table reservation: row id |-> row (ids are SERIAL: 1, 2, ...)
  notification,  \* table notification, in insertion order
  inflight,      \* bag of requests whose handler is suspended at an await
  response,      \* HTTP status code of the response sent last (0: none yet)
  issued,        \* number of requests received so far
  body,          \* the `error` or `message` text of the response sent last
  orders,        \* table orders: row id |-> row
  payment_transactions,  \* table payment_transactions, in insertion order
  order_item,    \* table order_item, in insertion order
  table,         \* table "table": row id |-> row, NoTable once deleted
  cart,          \* tables cart and cart_item: cart id |-> cart row and its items
  payment,       \* table payment, in insertion order
  listed         \* ids of the rows of the list sent last by res.json(result.rows)

vars == <<reservation, notification, inflight, response, issued, body, orders,
          payment_transactions, order_item, table, cart, payment, listed>>

----------------------------------------------------------------------------
(* Bounds of the model *)

\* Requests the API receives in one behaviour.
MaxRequests == 3

----------------------------------------------------------------------------
(* Values *)

\* SQL NULL / a missing JSON field, per column type.  Row ids are SERIAL
\* (>= 1) and a time of day is >= 0, a text is a sequence of one-character
\* strings, so each NULL differs from every value of its type.  NULL_ID and
\* the empty text are exactly the falsy values the handlers test with `!x`.
NULL_ID == 0
NULL_TIME == 0 - 1
NULL_STR == "NULL"
NULL_TEXT == <<"NULL">>

\* reservation.status CHECK constraint.
Statuses ==
  {"pending", "confirmed", "cancelled", "completed", "cancellation_requested", "no-show"}

\* Length of the service window, in minutes, and the length of a day: a
\* PostgreSQL TIME is a time of day, and TIME + INTERVAL wraps at midnight.
TwoHours == 120
DayMinutes == 1440

\* Longest cancellation reason kept.
ReasonMax == 500

Min(a, b) == IF a < b THEN a ELSE b

----------------------------------------------------------------------------
(* Pure helpers of the handlers *)

\* reservation_time + interval '2 hours'  (TIME arithmetic, modulo 24 h)
PlusTwoHours(t) == (t + TwoHours) % DayMinutes

\* The overlap predicate of the availability SELECT: `existing` is the stored
\* reservation_time, `requested` is $4.
Overlaps(existing, requested) ==
  \/ (existing >= requested /\ existing < PlusTwoHours(requested))
  \/ (existing < requested /\ PlusTwoHours(existing) > requested)

\* status NOT IN ('cancelled', 'no-show'): unknown, hence not selected, for a
\* NULL status.
StatusNotCancelled(status) ==
  status # NULL_STR /\ status \notin {"cancelled", "no-show"}

\* The ids the availability SELECT of create reservation returns.
checkAvailability(rows, restaurant_id, table_id, reservation_date, reservation_time) ==
  {i \in DOMAIN rows :
     /\ rows[i].restaurant_id = restaurant_id
     /\ rows[i].table_id = table_id
     /\ rows[i].reservation_date = reservation_date
     /\ StatusNotCancelled(rows[i].status)
     /\ Overlaps(rows[i].reservation_time, reservation_time)}

\* truncatedReason as it would be without the slice: reason ? reason : null
truncatedReasonUnsliced(reason) ==
  IF reason = NULL_TEXT \/ reason = <<>> THEN NULL_TEXT ELSE reason

\* reason ? reason.slice(0, 500) : null  (the empty string is falsy)
truncatedReason(reason) ==
  IF reason = NULL_TEXT \/ reason = <<>>
  THEN NULL_TEXT
  ELSE SubSeq(reason, 1, Min(Len(reason), ReasonMax))

\* The row createNotification inserts (staff inbox).
createNotification(restaurant_id, type, reservation_id) ==
  [restaurant_id |-> restaurant_id, customer_id |-> NULL_STR,
   type |-> type, reservation_id |-> reservation_id]

\* createCustomerNotification as it would be were the restaurant of the
\* reservation (here: restaurant 1) stored with the row as well.
createCustomerNotificationForBoth(customer_id, type, reservation_id) ==
  [restaurant_id |-> 1, customer_id |-> customer_id,
   type |-> type, reservation_id |-> reservation_id]

\* The row createCustomerNotification inserts (customer inbox).
createCustomerNotification(customer_id, type, reservation_id) ==
  [restaurant_id |-> NULL_ID, customer_id |-> customer_id,
   type |-> type, reservation_id |-> reservation_id]

----------------------------------------------------------------------------
(* Requests in flight *)

\* The locals of a suspended handler.  user_id is req.user.id (customer
\* token), staff_restaurant_id is req.staff.restaurant_id (staff token), id
\* is req.params.id (for create: the id of the inserted row), customer_id
\* and restaurant_id are those of the row the handler SELECTed.  For the
\* payment callback payment_id is that of the webhook, status the mapped
\* status and id the order_id the handler SELECTed.
NoRequest ==
  [op |-> "none", pc |-> "none", user_id |-> NULL_STR,
   staff_restaurant_id |-> NULL_ID, id |-> NULL_ID, restaurant_id |-> NULL_ID,
   table_id |-> NULL_ID, reservation_date |-> NULL_ID,
   reservation_time |-> NULL_TIME, status |-> NULL_STR, customer_id |-> NULL_STR,
   reason |-> NULL_TEXT, payment_id |-> NULL_STR, cart_id |-> NULL_ID,
   reservation_id |-> NULL_ID, items |-> <<>>, total |-> 0,
   table_number |-> NULL_STR, capacity |-> 0, is_available |-> TRUE]

Suspend(r) == inflight' = inflight (+) SetToBag({r})
Resume(r, next) == inflight' = (inflight (-) SetToBag({r})) (+) SetToBag({next})
Finish(r) == inflight' = inflight (-) SetToBag({r})

\* A request arrives: the step that starts its handler.
Receive ==
  /\ issued < MaxRequests
  /\ issued' = issued + 1

Running(r, op, pc) == BagIn(r, inflight) /\ r.op = op /\ r.pc = pc

\* res.status(code).json({ error: text }) or res.json({ message: text, ... })
Respond(code, text) == response' = code /\ body' = text

----------------------------------------------------------------------------
(* POST /api/reservations *)

\* CreateReservationCheck as it would be without the `return` before the
\* 400 of a conflict: the handler answers and goes on to its INSERT.
CreateReservationCheckNoReturn(customer_id, restaurant_id, table_id, reservation_date, reservation_time, party_size) ==
  /\ UNCHANGED <<orders, payment_transactions, order_item, table, cart, listed, payment>>
  /\ UNCHANGED <<reservation, notification>>
  /\ IF \/ restaurant_id = NULL_ID \/ reservation_date = NULL_ID
        \/ reservation_time = NULL_TIME \/ party_size = NULL_ID
     THEN Respond(400, "Missing required fields") /\ UNCHANGED inflight
     ELSE /\ Suspend([NoRequest EXCEPT !.op = "create", !.pc = "insert",
                        !.user_id = customer_id, !.restaurant_id = restaurant_id,
                        !.table_id = table_id,
                        !.reservation_date = reservation_date,
                        !.reservation_time = reservation_time])
          /\ IF /\ table_id # NULL_ID
                /\ checkAvailability(reservation, restaurant_id, table_id,
                                     reservation_date, reservation_time) # {}
             THEN Respond(400, "This table is not available for the selected time slot. Please choose a different time or table.")
             ELSE UNCHANGED <<response, body>>

\* CreateReservationCheck as it would be without the `if (table_id)` around
\* the availability SELECT: a request that names no table is checked against
\* the reservations that name none.
CreateReservationCheckUnassigned(customer_id, restaurant_id, table_id, reservation_date, reservation_time, party_size) ==
  /\ UNCHANGED <<orders, payment_transactions, order_item, table, cart, listed, payment>>
  /\ UNCHANGED <<reservation, notification>>
  /\ IF \/ restaurant_id = NULL_ID \/ reservation_date = NULL_ID
        \/ reservation_time = NULL_TIME \/ party_size = NULL_ID
     THEN Respond(400, "Missing required fields") /\ UNCHANGED inflight
     ELSE IF checkAvailability(reservation, restaurant_id, table_id,
                               reservation_date, reservation_time) # {}
     THEN Respond(400, "This table is not available for the selected time slot. Please choose a different time or table.") /\ UNCHANGED inflight
     ELSE /\ Suspend([NoRequest EXCEPT !.op = "create", !.pc = "insert",
                        !.user_id = customer_id, !.restaurant_id = restaurant_id,
                        !.table_id = table_id,
                        !.reservation_date = reservation_date,
                        !.reservation_time = reservation_time])
          /\ UNCHANGED <<response, body>>

\* Validation and the availability SELECT.
CreateReservationCheck(customer_id, restaurant_id, table_id, reservation_date, reservation_time, party_size) ==
  /\ UNCHANGED <<orders, payment_transactions, order_item, table, cart, listed, payment>>
  /\ UNCHANGED <<reservation, notification>>
  /\ IF \/ restaurant_id = NULL_ID \/ reservation_date = NULL_ID
        \/ reservation_time = NULL_TIME \/ party_size = NULL_ID
     THEN Respond(400, "Missing required fields") /\ UNCHANGED inflight
     ELSE IF /\ table_id # NULL_ID
             /\ checkAvailability(reservation, restaurant_id, table_id,
                                  reservation_date, reservation_time) # {}
     THEN Respond(400, "This table is not available for the selected time slot. Please choose a different time or table.") /\ UNCHANGED inflight
     ELSE /\ Suspend([NoRequest EXCEPT !.op = "create", !.pc = "insert",
                        !.user_id = customer_id, !.restaurant_id = restaurant_id,
                        !.table_id = table_id,
                        !.reservation_date = reservation_date,
                        !.reservation_time = reservation_time])
          /\ UNCHANGED <<response, body>>

\* CreateReservationInsert as it would be were the availability SELECT
\* repeated with the INSERT in one transaction: a conflict found then
\* answers 400 and inserts nothing.
CreateReservationInsertLocked(r) ==
  /\ UNCHANGED <<orders, payment_transactions, order_item, table, cart, listed, payment>>
  /\ Running(r, "create", "insert")
  /\ UNCHANGED <<notification, issued>>
  /\ IF /\ r.table_id # NULL_ID
        /\ checkAvailability(reservation, r.restaurant_id, r.table_id,
                             r.reservation_date, r.reservation_time) # {}
     THEN /\ UNCHANGED reservation
          /\ Finish(r)
          /\ Respond(400, "This table is not available for the selected time slot. Please choose a different time or table.")
     ELSE /\ reservation' = Append(reservation,
               [customer_id |-> r.user_id, restaurant_id |-> r.restaurant_id,
                table_id |-> r.table_id, reservation_date |-> r.reservation_date,
                reservation_time |-> r.reservation_time, status |-> "pending",
                cancellation_reason |-> NULL_TEXT])
          /\ Resume(r, [r EXCEPT !.pc = "notify", !.id = Len(reservation) + 1])
          /\ UNCHANGED <<response, body>>

\* INSERT INTO reservation ... 'pending' RETURNING *
CreateReservationInsert(r) ==
  /\ UNCHANGED <<orders, payment_transactions, order_item, table, cart, listed, payment>>
  /\ Running(r, "create", "insert")
  /\ reservation' = Append(reservation,
       [customer_id |-> r.user_id, restaurant_id |-> r.restaurant_id,
        table_id |-> r.table_id, reservation_date |-> r.reservation_date,
        reservation_time |-> r.reservation_time, status |-> "pending",
        cancellation_reason |-> NULL_TEXT])
  /\ Resume(r, [r EXCEPT !.pc = "notify", !.id = Len(reservation) + 1])
  /\ UNCHANGED <<notification, response, body, issued>>

\* CreateReservationNotify as it would be without the reservation_id of
\* the new reservation in the notification.
CreateReservationNotifyUnreferenced(r) ==
  /\ UNCHANGED <<orders, payment_transactions, order_item, table, cart, listed, payment>>
  /\ Running(r, "create", "notify")
  /\ notification' = Append(notification,
       createNotification(r.restaurant_id, "reservation_new", NULL_ID))
  /\ Respond(201, "Reservation created successfully")
  /\ Finish(r)
  /\ UNCHANGED <<reservation, issued>>

\* createNotification('reservation_new') and the 201 response.
CreateReservationNotify(r) ==
  /\ UNCHANGED <<orders, payment_transactions, order_item, table, cart, listed, payment>>
  /\ Running(r, "create", "notify")
  /\ notification' = Append(notification,
       createNotification(r.restaurant_id, "reservation_new", r.id))
  /\ Respond(201, "Reservation created successfully")
  /\ Finish(r)
  /\ UNCHANGED <<reservation, issued>>

----------------------------------------------------------------------------
(* PUT /api/reservations/:id  (customer) *)

UpdateReservation(user_id, id, status) ==
  /\ UNCHANGED <<orders, payment_transactions, order_item, table, cart, listed, payment>>
  /\ UNCHANGED <<notification, inflight>>
  /\ IF ~(id \in DOMAIN reservation /\ reservation[id].customer_id = user_id)
     THEN Respond(404, "Reservation not found") /\ UNCHANGED reservation
     ELSE IF status # NULL_STR /\ status \notin Statuses
     THEN Respond(500, "Internal server error") /\ UNCHANGED reservation
     ELSE /\ reservation' =
               [reservation EXCEPT ![id].status =
                  IF status # NULL_STR THEN status ELSE @]
          /\ Respond(200, "Reservation updated successfully")

----------------------------------------------------------------------------
(* POST /api/reservations/:id/request-cancellation  (customer)             *)
(*                                                                         *)
(* The handler first SELECTs the row by id (reservation = rows[0]) and     *)
(* then runs the guarded UPDATE.  The SELECT reads only columns that no    *)
(* statement of the API ever changes (restaurant_id, the date and time)    *)
(* and rows are never deleted, so when it finds the row it commutes with   *)
(* every statement of other requests and is taken here together with the   *)
(* UPDATE.  When it finds no row the two statements stay apart: the row    *)
(* may be inserted between them.                                           *)

\* The guarded UPDATE ... WHERE id = $2 AND customer_id = $3
\*                         AND status IN ('pending', 'confirmed')
RequestCancellationMatches(rows, user_id, id) ==
  /\ id \in DOMAIN rows
  /\ rows[id].customer_id = user_id
  /\ rows[id].status \in {"pending", "confirmed"}

RequestCancellationSet(rows, id, reason) ==
  [rows EXCEPT ![id].status = "cancellation_requested",
               ![id].cancellation_reason = truncatedReason(reason)]

\* The SELECT and, when it finds the row, the UPDATE; no row updated: 400.
RequestCancellation(user_id, id, reason) ==
  /\ UNCHANGED <<orders, payment_transactions, order_item, table, cart, listed, payment>>
  /\ UNCHANGED notification
  /\ IF id \notin DOMAIN reservation
     THEN /\ Suspend([NoRequest EXCEPT !.op = "request-cancellation",
                        !.pc = "update", !.user_id = user_id, !.id = id,
                        !.reason = reason])
          /\ UNCHANGED <<reservation, response, body>>
     ELSE IF RequestCancellationMatches(reservation, user_id, id)
     THEN /\ reservation' = RequestCancellationSet(reservation, id, reason)
          /\ Suspend([NoRequest EXCEPT !.op = "request-cancellation",
                        !.pc = "notify", !.user_id = user_id, !.id = id,
                        !.reason = reason,
                        !.restaurant_id = reservation[id].restaurant_id])
          /\ UNCHANGED <<response, body>>
     ELSE /\ Respond(400, "Reservation cannot be cancelled or not found")
          /\ UNCHANGED <<reservation, inflight>>

\* The UPDATE of a handler whose SELECT found no row; no row updated: 400.
\* With a row updated, `reservation` is undefined, reading
\* reservation.restaurant_id throws and the catch block answers 500.
RequestCancellationUpdate(r) ==
  /\ UNCHANGED <<orders, payment_transactions, order_item, table, cart, listed, payment>>
  /\ Running(r, "request-cancellation", "update")
  /\ Finish(r)
  /\ UNCHANGED <<notification, issued>>
  /\ IF RequestCancellationMatches(reservation, r.user_id, r.id)
     THEN /\ reservation' = RequestCancellationSet(reservation, r.id, r.reason)
          /\ Respond(500, "Internal server error")
     ELSE /\ UNCHANGED reservation
          /\ Respond(400, "Reservation cannot be cancelled or not found")

\* createNotification('cancellation_request') and the 200 response.
RequestCancellationNotify(r) ==
  /\ UNCHANGED <<orders, payment_transactions, order_item, table, cart, listed, payment>>
  /\ Running(r, "request-cancellation", "notify")
  /\ notification' = Append(notification,
       createNotification(r.restaurant_id, "cancellation_request", r.id))
  /\ Respond(200, "Cancellation request submitted successfully")
  /\ Finish(r)
  /\ UNCHANGED <<reservation, issued>>

----------------------------------------------------------------------------
(* The staff handlers below first SELECT the row by id and the restaurant  *)
(* of the staff token, answer 404 when there is none, and then UPDATE it.  *)
(* That SELECT too reads only what never changes (customer_id, the         *)
(* restaurant), so it is taken together with the UPDATE.                   *)

\* StaffOwns as it would be without `AND r.restaurant_id = $2`.
StaffOwnsAnywhere(rows, staff_restaurant_id, id) ==
  id \in DOMAIN rows

\* WHERE r.id = $1 AND r.restaurant_id = $2
StaffOwns(rows, staff_restaurant_id, id) ==
  id \in DOMAIN rows /\ rows[id].restaurant_id = staff_restaurant_id

(* PUT /api/staff/reservations/:id/status *)

\* StaffStatusUpdate as it would be were the notification sent only for a
\* reservation that was not confirmed before.
StaffStatusUpdateOnChange(staff_restaurant_id, id, status) ==
  /\ UNCHANGED <<orders, payment_transactions, order_item, table, cart, listed, payment>>
  /\ UNCHANGED notification
  /\ IF ~StaffOwns(reservation, staff_restaurant_id, id)
     THEN Respond(404, "Reservation not found") /\ UNCHANGED <<reservation, inflight>>
     ELSE IF status # NULL_STR /\ status \notin Statuses
     THEN Respond(500, "Internal server error") /\ UNCHANGED <<reservation, inflight>>
     ELSE /\ reservation' = [reservation EXCEPT ![id].status = status]
          /\ IF /\ status = "confirmed" /\ reservation[id].customer_id # NULL_STR
                /\ reservation[id].status # "confirmed"
             THEN /\ Suspend([NoRequest EXCEPT !.op = "staff-status",
                                !.pc = "notify",
                                !.staff_restaurant_id = staff_restaurant_id,
                                !.id = id, !.status = status,
                                !.customer_id = reservation[id].customer_id])
                  /\ UNCHANGED <<response, body>>
             ELSE Respond(200, "Reservation status updated") /\ UNCHANGED inflight

\* UPDATE reservation SET status = $1 WHERE id = $2 AND restaurant_id = $3.
\* A status outside the CHECK constraint makes the statement throw (500).
\* Only a set to 'confirmed' of a row with a customer goes on to notify.
StaffStatusUpdate(staff_restaurant_id, id, status) ==
  /\ UNCHANGED <<orders, payment_transactions, order_item, table, cart, listed, payment>>
  /\ UNCHANGED notification
  /\ IF ~StaffOwns(reservation, staff_restaurant_id, id)
     THEN Respond(404, "Reservation not found") /\ UNCHANGED <<reservation, inflight>>
     ELSE IF status # NULL_STR /\ status \notin Statuses
     THEN Respond(500, "Internal server error") /\ UNCHANGED <<reservation, inflight>>
     ELSE /\ reservation' = [reservation EXCEPT ![id].status = status]
          /\ IF status = "confirmed" /\ reservation[id].customer_id # NULL_STR
             THEN /\ Suspend([NoRequest EXCEPT !.op = "staff-status",
                                !.pc = "notify",
                                !.staff_restaurant_id = staff_restaurant_id,
                                !.id = id, !.status = status,
                                !.customer_id = reservation[id].customer_id])
                  /\ UNCHANGED <<response, body>>
             ELSE Respond(200, "Reservation status updated") /\ UNCHANGED inflight

\* INSERT INTO notification (NULL, customer_id, 'reservation_confirmed', ...)
\* and the 200 response.
StaffStatusNotify(r) ==
  /\ UNCHANGED <<orders, payment_transactions, order_item, table, cart, listed, payment>>
  /\ Running(r, "staff-status", "notify")
  /\ notification' = Append(notification,
       [restaurant_id |-> NULL_ID, customer_id |-> r.customer_id,
        type |-> "reservation_confirmed", reservation_id |-> r.id])
  /\ Respond(200, "Reservation status updated")
  /\ Finish(r)
  /\ UNCHANGED <<reservation, issued>>

(* POST /api/staff/reservations/:id/approve-cancellation and              *)
(* POST /api/staff/reservations/:id/reject-cancellation                   *)

\* The `message` of the 200 response of the two handlers.
CancellationMessage(op) ==
  IF op = "approve-cancellation"
  THEN "Cancellation approved"
  ELSE "Cancellation rejected, reservation confirmed"

\* CancellationUpdate as it would be without `AND status =
\* 'cancellation_requested'` in the WHERE of its UPDATE.
CancellationUpdateUnguarded(op, to, staff_restaurant_id, id) ==
  /\ UNCHANGED <<orders, payment_transactions, order_item, table, cart, listed, payment>>
  /\ UNCHANGED notification
  /\ IF ~StaffOwns(reservation, staff_restaurant_id, id)
     THEN Respond(404, "Reservation not found") /\ UNCHANGED <<reservation, inflight>>
     ELSE /\ reservation' = [reservation EXCEPT ![id].status = to,
                                                ![id].cancellation_reason = NULL_TEXT]
          /\ IF reservation[id].customer_id # NULL_STR
             THEN /\ Suspend([NoRequest EXCEPT !.op = op, !.pc = "notify",
                                !.staff_restaurant_id = staff_restaurant_id,
                                !.id = id,
                                !.customer_id = reservation[id].customer_id])
                  /\ UNCHANGED <<response, body>>
             ELSE Respond(200, CancellationMessage(op)) /\ UNCHANGED inflight

\* UPDATE reservation SET status = <to>, cancellation_reason = NULL
\* WHERE id = $1 AND restaurant_id = $2 AND status = 'cancellation_requested';
\* no row: 404.  Without a customer_id there is nothing to notify: 200.
CancellationUpdate(op, to, staff_restaurant_id, id) ==
  /\ UNCHANGED <<orders, payment_transactions, order_item, table, cart, listed, payment>>
  /\ UNCHANGED notification
  /\ IF ~StaffOwns(reservation, staff_restaurant_id, id)
     THEN Respond(404, "Reservation not found") /\ UNCHANGED <<reservation, inflight>>
     ELSE IF reservation[id].status # "cancellation_requested"
     THEN Respond(404, "Cancellation request not found or already processed") /\ UNCHANGED <<reservation, inflight>>
     ELSE /\ reservation' = [reservation EXCEPT ![id].status = to,
                                                ![id].cancellation_reason = NULL_TEXT]
          /\ IF reservation[id].customer_id # NULL_STR
             THEN /\ Suspend([NoRequest EXCEPT !.op = op, !.pc = "notify",
                                !.staff_restaurant_id = staff_restaurant_id,
                                !.id = id,
                                !.customer_id = reservation[id].customer_id])
                  /\ UNCHANGED <<response, body>>
             ELSE Respond(200, CancellationMessage(op)) /\ UNCHANGED inflight

\* createCustomerNotification(<type>) and the 200 response.
CancellationNotify(r, op, type) ==
  /\ UNCHANGED <<orders, payment_transactions, order_item, table, cart, listed, payment>>
  /\ Running(r, op, "notify")
  /\ notification' = Append(notification,
       createCustomerNotification(r.customer_id, type, r.id))
  /\ Respond(200, CancellationMessage(op))
  /\ Finish(r)
  /\ UNCHANGED <<reservation, issued>>

\* ApproveCancellationUpdate as it would be with SET status = 'confirmed'.
ApproveCancellationUpdateConfirms(staff_restaurant_id, id) ==
  CancellationUpdate("approve-cancellation", "confirmed", staff_restaurant_id, id)

ApproveCancellationUpdate(staff_restaurant_id, id) ==
  CancellationUpdate("approve-cancellation", "cancelled", staff_restaurant_id, id)

ApproveCancellationNotify(r) ==
  CancellationNotify(r, "approve-cancellation", "cancellation_approved")

\* RejectCancellationUpdate as it would be without `AND status =
\* 'cancellation_requested'` in its UPDATE.
RejectCancellationUpdateUnguarded(staff_restaurant_id, id) ==
  CancellationUpdateUnguarded("reject-cancellation", "confirmed", staff_restaurant_id, id)

RejectCancellationUpdate(staff_restaurant_id, id) ==
  CancellationUpdate("reject-cancellation", "confirmed", staff_restaurant_id, id)

\* RejectCancellationNotify as it would be with type 'cancellation_approved'.
RejectCancellationNotifyApproved(r) ==
  CancellationNotify(r, "reject-cancellation", "cancellation_approved")

RejectCancellationNotify(r) ==
  CancellationNotify(r, "reject-cancellation", "cancellation_rejected")

----------------------------------------------------------------------------
(* A notification INSERT that throws *)

\* The success response of the handler of an operation that notifies.
SuccessCode(op) == IF op = "create" THEN 201 ELSE 200
SuccessMessage(op) ==
  CASE op = "create" -> "Reservation created successfully"
    [] op = "request-cancellation" -> "Cancellation request submitted successfully"
    [] op = "staff-status" -> "Reservation status updated"
    [] OTHER -> CancellationMessage(op)

\* NotificationInsertFails as it would be without the try/catch around the
\* INSERT: the error reaches the catch block of the handler.
NotificationInsertFailsUncaught(r) ==
  /\ BagIn(r, inflight) /\ r.pc = "notify"
  /\ Respond(500, "Internal server error")
  /\ Finish(r)
  /\ UNCHANGED <<reservation, notification, issued, orders, payment_transactions, order_item, table, cart, listed, payment>>

\* The INSERT of createNotification, of createCustomerNotification or of
\* the direct status set throws: the catch block around it logs the error,
\* no row is inserted and the handler goes on to its success response.
NotificationInsertFails(r) ==
  /\ BagIn(r, inflight) /\ r.pc = "notify"
  /\ Respond(SuccessCode(r.op), SuccessMessage(r.op))
  /\ Finish(r)
  /\ UNCHANGED <<reservation, notification, issued, orders, payment_transactions, order_item, table, cart, listed, payment>>

----------------------------------------------------------------------------
(* PUT /api/staff/orders/:id/status *)

\* orders.status CHECK
OrderStatuses ==
  {"pending", "confirmed", "preparing", "served", "completed", "cancelled"}

\* StaffOwnsOrder as it would be were an order of another restaurant told
\* apart from no order (it matches, and the handler goes on to its UPDATE).
StaffOwnsOrderAnywhere(rows, staff_restaurant_id, id) ==
  id \in DOMAIN rows

\* WHERE id = $2 AND restaurant_id = $3
StaffOwnsOrder(rows, staff_restaurant_id, id) ==
  id \in DOMAIN rows /\ rows[id].restaurant_id = staff_restaurant_id

\* StaffOrderStatusUpdate as it would be were the two axes coupled: an order
\* set to completed is marked paid as well.
StaffOrderStatusUpdatePaying(staff_restaurant_id, id, status) ==
  /\ UNCHANGED <<reservation, notification, inflight, payment_transactions, order_item, table, cart, listed, payment>>
  /\ IF ~StaffOwnsOrder(orders, staff_restaurant_id, id)
     THEN Respond(404, "Order not found") /\ UNCHANGED orders
     ELSE IF status # NULL_STR /\ status \notin OrderStatuses
     THEN Respond(500, "Internal server error") /\ UNCHANGED orders
     ELSE /\ orders' = [orders EXCEPT ![id].status = status,
                                      ![id].payment_status =
                                        IF status = "completed" THEN "paid" ELSE @]
          /\ Respond(200, "Order status updated")

\* UPDATE orders SET status = $1 WHERE id = $2 AND restaurant_id = $3;
\* no row: 404.  A status outside the CHECK constraint makes the UPDATE of
\* a row throw (500); with no row to update nothing is checked.
StaffOrderStatusUpdate(staff_restaurant_id, id, status) ==
  /\ UNCHANGED <<reservation, notification, inflight, payment_transactions, order_item, table, cart, listed, payment>>
  /\ IF ~StaffOwnsOrder(orders, staff_restaurant_id, id)
     THEN Respond(404, "Order not found") /\ UNCHANGED orders
     ELSE IF status # NULL_STR /\ status \notin OrderStatuses
     THEN Respond(500, "Internal server error") /\ UNCHANGED orders
     ELSE /\ orders' = [orders EXCEPT ![id].status = status]
          /\ Respond(200, "Order status updated")

----------------------------------------------------------------------------
(* POST /api/payments/hitpay/callback  (webhook of the payment gateway) *)

\* a || b on values that are a string or missing
Or(a, b) == IF a # NULL_STR THEN a ELSE b

\* String.prototype.toLowerCase on the status texts the gateway sends
toLowerCase(status) ==
  CASE status = "COMPLETED" -> "completed"
    [] status = "Succeeded" -> "succeeded"
    [] status = "Expired" -> "expired"
    [] OTHER -> status

statusMap ==
  [completed |-> "completed", success |-> "completed", succeeded |-> "completed",
   pending |-> "pending", failed |-> "failed", expired |-> "expired"]

\* statusMap[status?.toLowerCase()] || 'pending'
mappedStatus(status) ==
  IF status # NULL_STR /\ toLowerCase(status) \in DOMAIN statusMap
  THEN statusMap[toLowerCase(status)]
  ELSE "pending"

\* body.id || body.payment_request_id
CallbackPaymentId(webhook) == Or(webhook.id, webhook.payment_request_id)

\* body.payments?.[0]?.id || body.id
CallbackTransactionId(webhook) == Or(webhook.payments, webhook.id)

\* UPDATE payment_transactions SET status = $1, transaction_id = $2
\* WHERE payment_id = $3
CallbackSetTransactions(rows, payment_id, status, transaction_id) ==
  [i \in DOMAIN rows |->
     IF rows[i].payment_id = payment_id
     THEN [rows[i] EXCEPT !.status = status, !.transaction_id = transaction_id]
     ELSE rows[i]]

\* SELECT order_id FROM payment_transactions WHERE payment_id = $1: the
\* indexes of the rows returned.
CallbackSelectOrder(rows, payment_id) ==
  {i \in DOMAIN rows : rows[i].payment_id = payment_id}

\* CallbackSetOrder as it would be with a side effect that adds up: the
\* amount paid is added to the total of the order.
CallbackSetOrderAdding(rows, order_id) ==
  [i \in DOMAIN rows |->
     IF i = order_id
     THEN [rows[i] EXCEPT !.payment_status = "paid", !.payment_method = "hitpay",
                          !.total_amount = @ + 10]
     ELSE rows[i]]

\* UPDATE orders SET payment_status = 'paid', payment_method = 'hitpay'
\* WHERE id = $1
CallbackSetOrder(rows, order_id) ==
  [i \in DOMAIN rows |->
     IF i = order_id
     THEN [rows[i] EXCEPT !.payment_status = "paid", !.payment_method = "hitpay"]
     ELSE rows[i]]

\* The payment_id check and the UPDATE of payment_transactions; a mapped
\* status other than completed ends the handler:
\* res.json({ received: true, status: mappedStatus }).
HitpayCallbackUpdate(webhook) ==
  /\ UNCHANGED <<reservation, notification, orders, order_item, table, cart, listed, payment>>
  /\ IF CallbackPaymentId(webhook) = NULL_STR
     THEN /\ Respond(400, "Missing payment_id")
          /\ UNCHANGED <<payment_transactions, inflight>>
     ELSE /\ payment_transactions' =
               CallbackSetTransactions(payment_transactions, CallbackPaymentId(webhook),
                                       mappedStatus(webhook.status),
                                       CallbackTransactionId(webhook))
          /\ IF mappedStatus(webhook.status) = "completed"
             THEN /\ Suspend([NoRequest EXCEPT !.op = "hitpay-callback",
                                !.pc = "select",
                                !.payment_id = CallbackPaymentId(webhook),
                                !.status = mappedStatus(webhook.status)])
                  /\ UNCHANGED <<response, body>>
             ELSE /\ Respond(200, mappedStatus(webhook.status))
                  /\ UNCHANGED inflight

\* The SELECT of the order_id; without a row the handler logs and ends.
\* rows[0] is any of the rows returned.
HitpayCallbackSelect(r) ==
  /\ Running(r, "hitpay-callback", "select")
  /\ UNCHANGED <<reservation, notification, orders, payment_transactions, issued, order_item, table, cart, listed, payment>>
  /\ IF CallbackSelectOrder(payment_transactions, r.payment_id) = {}
     THEN Respond(200, r.status) /\ Finish(r)
     ELSE /\ \E i \in CallbackSelectOrder(payment_transactions, r.payment_id) :
               Resume(r, [r EXCEPT !.pc = "order",
                                   !.id = payment_transactions[i].order_id])
          /\ UNCHANGED <<response, body>>

\* The UPDATE of the order and the response.
HitpayCallbackOrder(r) ==
  /\ Running(r, "hitpay-callback", "order")
  /\ orders' = CallbackSetOrder(orders, r.id)
  /\ Respond(200, r.status)
  /\ Finish(r)
  /\ UNCHANGED <<reservation, notification, payment_transactions, issued, order_item, table, cart, listed, payment>>

\* The whole handler run with no other request between its statements:
\* the tables <<payment_transactions, orders>> it leaves.
hitpayCallback(transactions, ords, webhook) ==
  LET payment_id == CallbackPaymentId(webhook)
      status == mappedStatus(webhook.status)
      updated == IF payment_id = NULL_STR
                 THEN transactions
                 ELSE CallbackSetTransactions(transactions, payment_id, status,
                                              CallbackTransactionId(webhook))
      found == CallbackSelectOrder(updated, payment_id)
  IN  IF payment_id # NULL_STR /\ status = "completed" /\ found # {}
      THEN <<updated,
             CallbackSetOrder(ords, updated[CHOOSE i \in found : TRUE].order_id)>>
      ELSE <<updated, ords>>

----------------------------------------------------------------------------
(* POST /api/orders *)

\* A row of cartItems: a cart_item joined with its menu_item, or an entry of
\* the request's items after the lookup of its id by name (item_id is
\* NULL_ID when the request names none and no menu item has its name).
\* sum + (item.price || 0) * (item.quantity || 0) over the rows.
RECURSIVE cartTotal(_)
cartTotal(cartItems) ==
  IF cartItems = <<>> THEN 0
  ELSE cartItems[1].price * cartItems[1].quantity + cartTotal(Tail(cartItems))

\* The rows of the loop from the first one that has an item_id: the loop
\* skips (`continue`) the rows before it.
RECURSIVE skipMissing(_)
skipMissing(cartItems) ==
  IF cartItems = <<>> \/ cartItems[1].item_id # NULL_ID THEN cartItems
  ELSE skipMissing(Tail(cartItems))

\* INSERT INTO orders ... VALUES ($1, $2, $3, 'pending', $4, $5, 'unpaid', NULL)
InsertOrder(rows, customer_id, reservation_id, restaurant_id, total) ==
  Append(rows, [customer_id |-> customer_id, reservation_id |-> reservation_id,
                restaurant_id |-> restaurant_id, status |-> "pending",
                total_amount |-> total, payment_status |-> "unpaid",
                payment_method |-> NULL_STR])

NoCart == [restaurant_id |-> NULL_ID, cart_item |-> <<>>]

CartItemsOf(cart_id) ==
  IF cart_id \in DOMAIN cart THEN cart[cart_id].cart_item ELSE <<>>

\* The handler up to its first statement that writes or that another
\* request can change the result of.  With a cart_id: the SELECT of the
\* cart's items, 400 for none.  With items in the body: the INSERT of the
\* order, its total the total_amount of the request when that is not 0.
CreateOrder(customer_id, cart_id, reservation_id, items, total_amount, req_restaurant_id) ==
  /\ UNCHANGED <<reservation, notification, payment_transactions, order_item, table, cart, listed, payment>>
  /\ IF cart_id # NULL_ID
     THEN IF CartItemsOf(cart_id) = <<>>
          THEN Respond(400, "Cart is empty") /\ UNCHANGED <<orders, inflight>>
          ELSE /\ Suspend([NoRequest EXCEPT !.op = "create-order", !.pc = "cart",
                             !.user_id = customer_id, !.cart_id = cart_id,
                             !.reservation_id = reservation_id,
                             !.items = CartItemsOf(cart_id)])
               /\ UNCHANGED <<orders, response, body>>
     ELSE IF items # <<>>
     THEN IF req_restaurant_id = NULL_ID
          THEN Respond(400, "Restaurant ID is required") /\ UNCHANGED <<orders, inflight>>
          ELSE /\ orders' = InsertOrder(orders, customer_id, reservation_id, req_restaurant_id,
                                        IF total_amount # 0 THEN total_amount ELSE cartTotal(items))
               /\ Suspend([NoRequest EXCEPT !.op = "create-order", !.pc = "items",
                             !.user_id = customer_id, !.id = Len(orders'),
                             !.items = items])
               /\ UNCHANGED <<response, body>>
     ELSE Respond(400, "No items to order") /\ UNCHANGED <<orders, inflight>>

\* SELECT * FROM cart WHERE id = $1, then total from the items read before.
\* cart.rows[0] of a cart deleted meanwhile is undefined: the TypeError is
\* caught, 500.
CreateOrderCart(r) ==
  /\ Running(r, "create-order", "cart")
  /\ UNCHANGED <<reservation, notification, orders, payment_transactions, order_item, table, cart, listed, payment, issued>>
  /\ IF r.cart_id \in DOMAIN cart /\ cart[r.cart_id] # NoCart
     THEN /\ Resume(r, [r EXCEPT !.pc = "insert",
                          !.restaurant_id = cart[r.cart_id].restaurant_id,
                          !.total = cartTotal(r.items)])
          /\ UNCHANGED <<response, body>>
     ELSE Respond(500, "Internal server error") /\ Finish(r)

\* The INSERT of the order of a cart.
CreateOrderInsert(r) ==
  /\ Running(r, "create-order", "insert")
  /\ orders' = InsertOrder(orders, r.user_id, r.reservation_id, r.restaurant_id, r.total)
  /\ Resume(r, [r EXCEPT !.pc = "items", !.id = Len(orders')])
  /\ UNCHANGED <<reservation, notification, payment_transactions, order_item, table, cart, listed, payment, issued, response, body>>

\* INSERT INTO order_item of the next row that has an item_id.
CreateOrderItem(r) ==
  /\ Running(r, "create-order", "items")
  /\ skipMissing(r.items) # <<>>
  /\ LET item == skipMissing(r.items)[1]
     IN  order_item' = Append(order_item,
           [order_id |-> r.id, item_id |-> item.item_id,
            quantity |-> item.quantity, unit_price |-> item.price,
            subtotal |-> item.price * item.quantity])
  /\ Resume(r, [r EXCEPT !.items = Tail(skipMissing(r.items))])
  /\ UNCHANGED <<reservation, notification, orders, payment_transactions, table, cart, listed, payment, issued, response, body>>

\* After the loop: DELETE FROM cart_item of an order from a cart, the 201
\* of an order from the body.
CreateOrderItemsDone(r) ==
  /\ Running(r, "create-order", "items")
  /\ skipMissing(r.items) = <<>>
  /\ UNCHANGED <<reservation, notification, orders, payment_transactions, order_item, table, payment, listed, issued>>
  /\ IF r.cart_id # NULL_ID
     THEN /\ cart' = [c \in DOMAIN cart |->
                        IF c = r.cart_id THEN [cart[c] EXCEPT !.cart_item = <<>>]
                        ELSE cart[c]]
          /\ Resume(r, [r EXCEPT !.pc = "clear"])
          /\ UNCHANGED <<response, body>>
     ELSE /\ Respond(201, "Order created successfully")
          /\ Finish(r)
          /\ UNCHANGED cart

\* DELETE FROM cart, then the 201.
CreateOrderClear(r) ==
  /\ Running(r, "create-order", "clear")
  /\ cart' = [c \in DOMAIN cart |-> IF c = r.cart_id THEN NoCart ELSE cart[c]]
  /\ Respond(201, "Order created successfully")
  /\ Finish(r)
  /\ UNCHANGED <<reservation, notification, orders, payment_transactions, order_item, table, payment, listed, issued>>

----------------------------------------------------------------------------
(* POST /api/payments *)

\* The first of the two handlers registered for POST /api/payments: it
\* answers every request, so the second one (the INSERT INTO
\* payment_transactions further down the file) never runs.
\* INSERT INTO payment (customer_id, order_id, amount, payment_method,
\* payment_status, ...) with payment_method || 'online' and
\* payment_status || 'pending'.
CreatePayment(customer_id, order_id, payment_method, payment_status) ==
  /\ payment' = Append(payment,
       [customer_id |-> customer_id, order_id |-> order_id,
        payment_method |-> Or(payment_method, "online"),
        payment_status |-> Or(payment_status, "pending")])
  /\ Respond(201, "Payment recorded successfully")
  /\ UNCHANGED <<reservation, notification, inflight, orders, payment_transactions, order_item, table, cart, listed>>

----------------------------------------------------------------------------
(* POST /api/payments/hitpay/create *)

\* The request to the gateway answered (response.ok) with a payment request
\* of a new id: INSERT INTO payment_transactions ... 'pending', 'hitpay'.
\* The fields are checked before the gateway is asked; a gateway that
\* refuses is answered with the status of the gateway's response (502
\* stands for it) and nothing is stored.
HitpayCreate(order_id, amount, customer_email, ok, payment_id) ==
  /\ UNCHANGED <<reservation, notification, inflight, orders, order_item, table, cart, listed, payment>>
  /\ IF order_id = NULL_ID \/ amount = 0 \/ customer_email = NULL_STR
     THEN /\ Respond(400, "Missing required fields: order_id, amount, customer_email")
          /\ UNCHANGED payment_transactions
     ELSE IF ~ok
     THEN Respond(502, "Failed to create payment") /\ UNCHANGED payment_transactions
     ELSE /\ \A i \in DOMAIN payment_transactions :
               payment_transactions[i].payment_id # payment_id
          /\ payment_transactions' = Append(payment_transactions,
               [order_id |-> order_id, payment_id |-> payment_id,
                payment_method |-> "hitpay", status |-> "pending",
                transaction_id |-> NULL_STR])
          /\ Respond(200, payment_id)

----------------------------------------------------------------------------
(* GET /api/payments/hitpay/status/:payment_id *)

pollStatusMap ==
  [completed |-> "completed", success |-> "completed", pending |-> "pending",
   failed |-> "failed", expired |-> "expired"]

\* statusMap[hitpayData.status?.toLowerCase()] || 'pending' of the poll
pollMappedStatus(status) ==
  IF status # NULL_STR /\ toLowerCase(status) \in DOMAIN pollStatusMap
  THEN pollStatusMap[toLowerCase(status)]
  ELSE "pending"

\* UPDATE payment_transactions SET status = $1 WHERE payment_id = $2
PollSetTransactions(rows, payment_id, status) ==
  [i \in DOMAIN rows |->
     IF rows[i].payment_id = payment_id
     THEN [rows[i] EXCEPT !.status = status]
     ELSE rows[i]]

\* The SELECT of the transaction: 404 without a row; a row that is not
\* pending is answered as stored; for a pending one the gateway is asked.
HitpayStatus(payment_id) ==
  /\ UNCHANGED <<reservation, notification, orders, payment_transactions, order_item, table, cart, listed, payment>>
  /\ IF CallbackSelectOrder(payment_transactions, payment_id) = {}
     THEN Respond(404, "Payment not found") /\ UNCHANGED inflight
     ELSE \E i \in CallbackSelectOrder(payment_transactions, payment_id) :
            IF payment_transactions[i].status = "pending"
            THEN /\ Suspend([NoRequest EXCEPT !.op = "hitpay-status", !.pc = "verify",
                               !.payment_id = payment_id,
                               !.id = payment_transactions[i].order_id,
                               !.status = payment_transactions[i].status])
                 /\ UNCHANGED <<response, body>>
            ELSE /\ Respond(200, payment_transactions[i].status)
                 /\ UNCHANGED inflight

\* The answer of the gateway: not ok, the stored status is returned; ok, its
\* status is mapped and, when it differs from the status read by the
\* SELECT, stored.
HitpayStatusVerify(r, ok, status) ==
  /\ Running(r, "hitpay-status", "verify")
  /\ UNCHANGED <<reservation, notification, orders, issued, order_item, table, cart, listed, payment>>
  /\ IF ~ok
     THEN Respond(200, r.status) /\ Finish(r) /\ UNCHANGED payment_transactions
     ELSE IF pollMappedStatus(status) = r.status
     THEN Respond(200, r.status) /\ Finish(r) /\ UNCHANGED payment_transactions
     ELSE /\ payment_transactions' =
               PollSetTransactions(payment_transactions, r.payment_id,
                                   pollMappedStatus(status))
          /\ IF pollMappedStatus(status) = "completed"
             THEN /\ Resume(r, [r EXCEPT !.pc = "order", !.status = "completed"])
                  /\ UNCHANGED <<response, body>>
             ELSE Respond(200, pollMappedStatus(status)) /\ Finish(r)

\* The UPDATE of the order of a payment found completed, and the response.
HitpayStatusOrder(r) ==
  /\ Running(r, "hitpay-status", "order")
  /\ orders' = CallbackSetOrder(orders, r.id)
  /\ Respond(200, r.status)
  /\ Finish(r)
  /\ UNCHANGED <<reservation, notification, payment_transactions, issued, order_item, table, cart, listed, payment>>

----------------------------------------------------------------------------
(* GET /api/restaurants/:id/floor-plan?date&time *)

\* A deleted row of "table".
NoTable ==
  [restaurant_id |-> NULL_ID, table_number |-> NULL_STR, capacity |-> 0,
   is_available |-> FALSE]

\* SELECT table_id FROM reservation WHERE ... : the table ids returned, the
\* NULL of a reservation without a table (NULL_ID) among them.
bookedTables(rows, restaurant_id, reservation_date, reservation_time) ==
  {rows[i].table_id :
     i \in {j \in DOMAIN rows :
              /\ rows[j].restaurant_id = restaurant_id
              /\ rows[j].reservation_date = reservation_date
              /\ StatusNotCancelled(rows[j].status)
              /\ Overlaps(rows[j].reservation_time, reservation_time)}}

\* WHERE restaurant_id = $1 AND is_available = true AND id NOT IN (...):
\* the ids of the tables returned.  id NOT IN (list) is not true for any id
\* when the list holds a NULL.
floorPlan(tables, rows, restaurant_id, reservation_date, reservation_time) ==
  {id \in DOMAIN tables :
     /\ tables[id].restaurant_id = restaurant_id
     /\ tables[id].is_available
     /\ id \notin bookedTables(rows, restaurant_id, reservation_date, reservation_time)
     /\ NULL_ID \notin bookedTables(rows, restaurant_id, reservation_date, reservation_time)}

\* The handler with a date and a time in the query: res.json(result.rows).
GetFloorPlan(id, date, time) ==
  /\ listed' = floorPlan(table, reservation, id, date, time)
  /\ Respond(200, NULL_STR)
  /\ UNCHANGED <<reservation, notification, inflight, orders, payment_transactions, order_item, table, cart, payment>>

----------------------------------------------------------------------------
(* POST /api/staff/tables, PUT /api/staff/tables/:id and                   *)
(* DELETE /api/staff/tables/:id                                            *)

\* String.prototype.trim on the table numbers a client sends
trim(table_number) ==
  CASE table_number = " A1 " -> "A1"
    [] table_number = "  " -> ""
    [] OTHER -> table_number

\* !table_number || !table_number.trim()
TableNumberMissing(table_number) ==
  table_number = NULL_STR \/ table_number = "" \/ trim(table_number) = ""

\* !capacity || capacity < 1 || capacity > 8
CapacityOutOfRange(capacity) == capacity = 0 \/ capacity < 1 \/ capacity > 8

\* SELECT id FROM "table" WHERE restaurant_id = $1 AND table_number = $2
\* AND id != $3  (no table has the id NULL_ID of the add handler's SELECT,
\* which has no third condition)
ExistingTable(tables, restaurant_id, table_number, id) ==
  {i \in DOMAIN tables :
     /\ tables[i].restaurant_id = restaurant_id
     /\ tables[i].table_number = table_number
     /\ i # id}

\* WHERE id = $1 AND restaurant_id = $2
StaffOwnsTable(tables, staff_restaurant_id, id) ==
  id \in DOMAIN tables /\ tables[id].restaurant_id = staff_restaurant_id

\* The two checks of the body, shared by add and update: the text of the
\* 400, NULL_STR when they pass.
TableBodyError(table_number, capacity) ==
  IF TableNumberMissing(table_number) THEN "Table number is required"
  ELSE IF CapacityOutOfRange(capacity) THEN "Capacity must be between 1 and 8"
  ELSE NULL_STR

\* Add: the checks of the body and the SELECT of a table of that number.
AddTableCheck(staff_restaurant_id, table_number, capacity) ==
  /\ UNCHANGED <<reservation, notification, orders, payment_transactions, order_item, table, cart, listed, payment>>
  /\ IF TableBodyError(table_number, capacity) # NULL_STR
     THEN Respond(400, TableBodyError(table_number, capacity)) /\ UNCHANGED inflight
     ELSE IF ExistingTable(table, staff_restaurant_id, trim(table_number), NULL_ID) # {}
     THEN Respond(400, "Table number already exists") /\ UNCHANGED inflight
     ELSE /\ Suspend([NoRequest EXCEPT !.op = "add-table", !.pc = "insert",
                        !.staff_restaurant_id = staff_restaurant_id,
                        !.table_number = table_number, !.capacity = capacity])
          /\ UNCHANGED <<response, body>>

\* Add: INSERT INTO "table" (..., is_available) VALUES (..., true), 201.
AddTableInsert(r) ==
  /\ Running(r, "add-table", "insert")
  /\ table' = Append(table,
       [restaurant_id |-> r.staff_restaurant_id,
        table_number |-> trim(r.table_number), capacity |-> r.capacity,
        is_available |-> TRUE])
  /\ Respond(201, "Table added successfully")
  /\ Finish(r)
  /\ UNCHANGED <<reservation, notification, orders, payment_transactions, order_item, cart, listed, payment, issued>>

\* Update: the checks of the body and the SELECT of the table by id and
\* restaurant, 404 without a row.
UpdateTableCheck(staff_restaurant_id, id, table_number, capacity, is_available) ==
  /\ UNCHANGED <<reservation, notification, orders, payment_transactions, order_item, table, cart, listed, payment>>
  /\ IF TableBodyError(table_number, capacity) # NULL_STR
     THEN Respond(400, TableBodyError(table_number, capacity)) /\ UNCHANGED inflight
     ELSE IF ~StaffOwnsTable(table, staff_restaurant_id, id)
     THEN Respond(404, "Table not found") /\ UNCHANGED inflight
     ELSE /\ Suspend([NoRequest EXCEPT !.op = "update-table", !.pc = "existing",
                        !.staff_restaurant_id = staff_restaurant_id, !.id = id,
                        !.table_number = table_number, !.capacity = capacity,
                        !.is_available = is_available])
          /\ UNCHANGED <<response, body>>

\* Update: the SELECT of another table of that number.
UpdateTableExisting(r) ==
  /\ Running(r, "update-table", "existing")
  /\ UNCHANGED <<reservation, notification, orders, payment_transactions, order_item, table, cart, listed, payment, issued>>
  /\ IF ExistingTable(table, r.staff_restaurant_id, trim(r.table_number), r.id) # {}
     THEN Respond(400, "Table number already exists") /\ Finish(r)
     ELSE /\ Resume(r, [r EXCEPT !.pc = "update"])
          /\ UNCHANGED <<response, body>>

\* Update: UPDATE "table" SET ... WHERE id = $5 AND restaurant_id = $6, 200
\* (with table: undefined when the row is gone).
UpdateTableSet(r) ==
  /\ Running(r, "update-table", "update")
  /\ table' = [i \in DOMAIN table |->
                 IF i = r.id /\ table[i].restaurant_id = r.staff_restaurant_id
                 THEN [table[i] EXCEPT !.table_number = trim(r.table_number),
                                       !.capacity = r.capacity,
                                       !.is_available = r.is_available]
                 ELSE table[i]]
  /\ Respond(200, "Table updated successfully")
  /\ Finish(r)
  /\ UNCHANGED <<reservation, notification, orders, payment_transactions, order_item, cart, listed, payment, issued>>

\* DELETE FROM "table" WHERE id = $1 AND restaurant_id = $2 RETURNING *
DeleteTable(staff_restaurant_id, id) ==
  /\ UNCHANGED <<reservation, notification, inflight, orders, payment_transactions, order_item, cart, listed, payment>>
  /\ IF StaffOwnsTable(table, staff_restaurant_id, id)
     THEN /\ table' = [table EXCEPT ![id] = NoTable]
          /\ Respond(200, "Table deleted successfully")
     ELSE Respond(404, "Table not found") /\ UNCHANGED table

----------------------------------------------------------------------------
(* The API from an empty database *)

Customers == {"c1", "c2"}
Restaurants == {1, 2}

\* Who books what: each customer books at one restaurant, its table or no
\* table, at one time of one date.
Bookings ==
  {[customer_id |-> "c1", restaurant_id |-> 1, table_id |-> 1],
   [customer_id |-> "c2", restaurant_id |-> 2, table_id |-> 2]}
Dates == {1}
Times == {1080}

\* Values a client may send for a status.
StatusInputs == Statuses \cup {NULL_STR, "bogus"}

\* Reasons a client may send: none, the empty string, a short text.
Reasons == {NULL_TEXT, <<>>, <<"b", "u", "s", "y">>}

\* The ids a client may name: the rows there are and the next SERIAL id.
Ids == 1..(Len(reservation) + 1)

Init ==
  /\ reservation = <<>>
  /\ notification = <<>>
  /\ inflight = EmptyBag
  /\ response = 0
  /\ issued = 0
  /\ body = ""
  /\ orders = <<>>
  /\ payment_transactions = <<>>
  /\ order_item = <<>>
  /\ table = <<>>
  /\ cart = <<>>
  /\ payment = <<>>
  /\ listed = {}

Next ==
  \/ /\ Receive
     /\ \E b \in Bookings : \E rid \in {b.restaurant_id, NULL_ID}, tid \in {b.table_id, NULL_ID}, d \in Dates \cup {NULL_ID}, t \in Times \cup {NULL_TIME}, ps \in {NULL_ID, 2} :
          CreateReservationCheck(b.customer_id, rid, tid, d, t, ps)
  \/ \E r \in BagToSet(inflight) : CreateReservationInsert(r)
  \/ \E r \in BagToSet(inflight) : CreateReservationNotify(r)
  \/ Receive /\ \E c \in Customers, id \in Ids, s \in StatusInputs : UpdateReservation(c, id, s)
  \/ Receive /\ \E c \in Customers, id \in Ids, why \in Reasons : RequestCancellation(c, id, why)
  \/ \E r \in BagToSet(inflight) : RequestCancellationUpdate(r)
  \/ \E r \in BagToSet(inflight) : RequestCancellationNotify(r)
  \/ Receive /\ \E sr \in Restaurants, id \in Ids, s \in StatusInputs : StaffStatusUpdate(sr, id, s)
  \/ \E r \in BagToSet(inflight) : StaffStatusNotify(r)
  \/ Receive /\ \E sr \in Restaurants, id \in Ids : ApproveCancellationUpdate(sr, id)
  \/ \E r \in BagToSet(inflight) : ApproveCancellationNotify(r)
  \/ Receive /\ \E sr \in Restaurants, id \in Ids : RejectCancellationUpdate(sr, id)
  \/ \E r \in BagToSet(inflight) : RejectCancellationNotify(r)

Spec == Init /\ [][Next]_vars

----------------------------------------------------------------------------
(* The API from an empty database, with notification INSERTs that may throw *)

FailingNext ==
  \/ Next
  \/ \E r \in BagToSet(inflight) : NotificationInsertFails(r)

SpecFailing == Init /\ [][FailingNext]_vars

----------------------------------------------------------------------------
(* One create request against a stored set of reservations *)

\* Times of day: 18:00, 19:30, 20:00, 22:00, 23:00.
AvailTimes == {1080, 1170, 1200, 1320, 1380}
AvailTables == {1, 2}
AvailDates == {1, 2}

\* The rows the table may hold: any restaurant, table (or none), date, time
\* and status (a staff status set with no status in its body stores NULL).
AvailRows ==
  [customer_id : {"c1"}, restaurant_id : Restaurants,
   table_id : AvailTables \cup {NULL_ID}, reservation_date : AvailDates,
   reservation_time : AvailTimes, status : Statuses \cup {NULL_STR},
   cancellation_reason : {NULL_TEXT}]

\* A second row beside the first: at 18:00 on table 1, confirmed or cancelled.
AvailSecondRows ==
  [customer_id : {"c2"}, restaurant_id : {1}, table_id : {1},
   reservation_date : {1}, reservation_time : {1080},
   status : {"confirmed", "cancelled"}, cancellation_reason : {NULL_TEXT}]

AvailInit ==
  /\ reservation \in {<<a>> : a \in AvailRows}
                    \cup {<<a, b>> : a \in AvailRows, b \in AvailSecondRows}
  /\ notification = <<>>
  /\ inflight = EmptyBag
  /\ response = 0
  /\ issued = 0
  /\ body = ""
  /\ orders = <<>>
  /\ payment_transactions = <<>>
  /\ order_item = <<>>
  /\ table = <<>>
  /\ cart = <<>>
  /\ payment = <<>>
  /\ listed = {}

\* Customer c2 asks once for restaurant 1 on date 1: table 1 or no table, at
\* any of the times (or with the time missing).
AvailNext ==
  \/ /\ issued = 0
     /\ issued' = 1
     /\ \E tid \in {1, NULL_ID}, t \in AvailTimes \cup {NULL_TIME} :
          CreateReservationCheck("c2", 1, tid, 1, t, 2)
  \/ \E r \in BagToSet(inflight) : CreateReservationInsert(r)
  \/ \E r \in BagToSet(inflight) : CreateReservationNotify(r)

SpecAvail == AvailInit /\ [][AvailNext]_vars

----------------------------------------------------------------------------
(* One request-cancellation against one stored reservation *)

\* The longest reason a client sends.
MaxReasonLen == 600

\* The text of n characters a, b, c, a, b, c, ...
ReasonChars == <<"a", "b", "c">>
ReasonText(n) == [i \in 1..n |-> ReasonChars[(i % 3) + 1]]

\* No reason, and texts of 0, 1, 499, 500, 501 and MaxReasonLen characters.
ReasonInputs ==
  {NULL_TEXT} \cup
  {ReasonText(n) : n \in {0, 1, ReasonMax - 1, ReasonMax, ReasonMax + 1, MaxReasonLen}}

\* The stored reservation: of either customer, in any status.
ReasonRows ==
  [customer_id : Customers, restaurant_id : {1}, table_id : {1},
   reservation_date : {1}, reservation_time : {1080}, status : Statuses,
   cancellation_reason : {NULL_TEXT}]

ReasonInit ==
  /\ reservation \in {<<a>> : a \in ReasonRows}
  /\ notification = <<>>
  /\ inflight = EmptyBag
  /\ response = 0
  /\ issued = 0
  /\ body = ""
  /\ orders = <<>>
  /\ payment_transactions = <<>>
  /\ order_item = <<>>
  /\ table = <<>>
  /\ cart = <<>>
  /\ payment = <<>>
  /\ listed = {}

ReasonNext ==
  \/ /\ issued = 0
     /\ issued' = 1
     /\ \E c \in Customers, id \in Ids, why \in ReasonInputs : RequestCancellation(c, id, why)
  \/ \E r \in BagToSet(inflight) : RequestCancellationUpdate(r)
  \/ \E r \in BagToSet(inflight) : RequestCancellationNotify(r)

SpecReason == ReasonInit /\ [][ReasonNext]_vars

----------------------------------------------------------------------------
(* One staff request against a stored reservation and a stored order *)

\* The restaurant of the staff token.
StaffToken == 1

\* The stored reservation: of either restaurant, with or without a
\* customer, in any status, with or without a stored reason.
StaffRows ==
  [customer_id : {"c1", NULL_STR}, restaurant_id : Restaurants, table_id : {1},
   reservation_date : {1}, reservation_time : {1080}, status : Statuses,
   cancellation_reason : {NULL_TEXT, <<"b", "u", "s", "y">>}]

\* The stored order: of either restaurant, unpaid.
StaffOrders ==
  [customer_id : {"c1"}, reservation_id : {1}, restaurant_id : Restaurants,
   status : {"pending", "served"}, total_amount : {10},
   payment_status : {"unpaid"}, payment_method : {NULL_STR}]

\* Values a client may send for an order status.
OrderStatusInputs == {"preparing", "completed", NULL_STR, "bogus"}

\* The order ids a client may name: the rows there are and the next id.
OrderIds == 1..(Len(orders) + 1)

StaffInit ==
  /\ reservation \in {<<a>> : a \in StaffRows}
  /\ orders \in {<<o>> : o \in StaffOrders}
  /\ notification = <<>>
  /\ inflight = EmptyBag
  /\ response = 0
  /\ issued = 0
  /\ body = ""
  /\ payment_transactions = <<>>
  /\ order_item = <<>>
  /\ table = <<>>
  /\ cart = <<>>
  /\ payment = <<>>
  /\ listed = {}

StaffNext ==
  \/ issued = 0 /\ issued' = 1 /\ \E id \in Ids, s \in StatusInputs : StaffStatusUpdate(StaffToken, id, s)
  \/ \E r \in BagToSet(inflight) : StaffStatusNotify(r)
  \/ issued = 0 /\ issued' = 1 /\ \E id \in Ids : ApproveCancellationUpdate(StaffToken, id)
  \/ \E r \in BagToSet(inflight) : ApproveCancellationNotify(r)
  \/ issued = 0 /\ issued' = 1 /\ \E id \in Ids : RejectCancellationUpdate(StaffToken, id)
  \/ \E r \in BagToSet(inflight) : RejectCancellationNotify(r)
  \/ issued = 0 /\ issued' = 1 /\ \E id \in OrderIds, s \in OrderStatusInputs : StaffOrderStatusUpdate(StaffToken, id, s)

SpecStaff == StaffInit /\ [][StaffNext]_vars

----------------------------------------------------------------------------
(* Gateway callbacks against a stored order and its payment transactions *)

\* The stored order: unpaid, paid in cash or paid through the gateway.
PayOrders ==
  {[customer_id |-> "c1", reservation_id |-> 1, restaurant_id |-> 1,
    status |-> "pending", total_amount |-> 10,
    payment_status |-> ps[1], payment_method |-> ps[2]] :
     ps \in {<<"unpaid", NULL_STR>>, <<"paid", "cash">>, <<"paid", "hitpay">>}}

\* The transaction of payment request p1 for order 1, in any status.
PayTransactions ==
  [order_id : {1}, payment_id : {"p1"}, payment_method : {"hitpay"},
   status : {"pending", "completed", "failed", "expired"},
   transaction_id : {NULL_STR, "t0"}]

\* A payment recorded by POST /api/payments: completed, no payment_id.
ManualTransaction ==
  [order_id |-> 1, payment_id |-> NULL_STR, payment_method |-> "cash",
   status |-> "completed", transaction_id |-> NULL_STR]

\* The webhook bodies the gateway sends: with an id (payment request
\* webhook) or a payment_request_id (payment webhook) or neither, for the
\* payment p1 or an unknown p2, with any status text, known or not, or none.
Webhooks ==
  [id : {NULL_STR, "p1"}, payment_request_id : {NULL_STR, "p2"},
   status : {"completed", "Succeeded", "pending", "failed", "expired", "refunded", NULL_STR},
   payments : {NULL_STR, "t1"}]

PayInit ==
  /\ reservation = <<>>
  /\ notification = <<>>
  /\ inflight = EmptyBag
  /\ response = 0
  /\ issued = 0
  /\ body = ""
  /\ orders \in {<<o>> : o \in PayOrders}
  /\ payment_transactions \in
       {<<>>} \cup {<<t>> : t \in PayTransactions}
              \cup {<<ManualTransaction, t>> : t \in PayTransactions}
  /\ order_item = <<>>
  /\ table = <<>>
  /\ cart = <<>>
  /\ payment = <<>>
  /\ listed = {}

PayNext ==
  \/ Receive /\ \E webhook \in Webhooks : HitpayCallbackUpdate(webhook)
  \/ \E r \in BagToSet(inflight) : HitpayCallbackSelect(r)
  \/ \E r \in BagToSet(inflight) : HitpayCallbackOrder(r)

SpecPay == PayInit /\ [][PayNext]_vars

----------------------------------------------------------------------------
(* Create-order requests against a stored cart *)

\* Create-order requests in one behaviour.
MaxOrders == 2

\* Entries of the items of a request body, after the lookup by name.
BodyItems == [item_id : {NULL_ID, 7}, price : {3}, quantity : {1, 2}]

\* Rows of a stored cart joined with menu_item: the price of the menu item,
\* no item_id and no price (price || 0 is 0) when the menu item is gone.
CartRows ==
  {[item_id |-> 7, price |-> 3, quantity |-> 1],
   [item_id |-> 7, price |-> 3, quantity |-> 2],
   [item_id |-> NULL_ID, price |-> 0, quantity |-> 1]}

ItemLists(S) == {<<>>} \cup {<<a>> : a \in S} \cup {<<a, b>> : a \in S, b \in S}

\* total_amount of a request body: none (0) or a number of the client.
TotalInputs == {0, 4}

OrderInit ==
  /\ reservation = <<>>
  /\ notification = <<>>
  /\ inflight = EmptyBag
  /\ response = 0
  /\ issued = 0
  /\ body = ""
  /\ orders = <<>>
  /\ payment_transactions = <<>>
  /\ order_item = <<>>
  /\ table = <<>>
  /\ cart \in {<<[restaurant_id |-> 1, cart_item |-> l]>> : l \in ItemLists(CartRows) \ {<<>>}}
  /\ payment = <<>>
  /\ listed = {}

OrderNext ==
  \/ /\ issued < MaxOrders /\ issued' = issued + 1
     /\ \E cart_id \in {NULL_ID, 1}, items \in ItemLists(BodyItems), total_amount \in TotalInputs, rid \in {NULL_ID, 1} :
          /\ cart_id # NULL_ID => items = <<>> /\ total_amount = 0 /\ rid = NULL_ID
          /\ CreateOrder("c1", cart_id, NULL_ID, items, total_amount, rid)
  \/ \E r \in BagToSet(inflight) : CreateOrderCart(r)
  \/ \E r \in BagToSet(inflight) : CreateOrderInsert(r)
  \/ \E r \in BagToSet(inflight) : CreateOrderItem(r)
  \/ \E r \in BagToSet(inflight) : CreateOrderItemsDone(r)
  \/ \E r \in BagToSet(inflight) : CreateOrderClear(r)

SpecOrder == OrderInit /\ [][OrderNext]_vars

----------------------------------------------------------------------------
(* An order from its creation to its payment: orders, the staff status    *)
(* set, recorded payments, payment requests, gateway callbacks and status  *)
(* polls, from a database with at most one stored order                    *)

\* The unpaid order 1 of restaurant 1.
StoredOrder ==
  [customer_id |-> "c1", reservation_id |-> NULL_ID, restaurant_id |-> 1,
   status |-> "pending", total_amount |-> 10, payment_status |-> "unpaid",
   payment_method |-> NULL_STR]

\* Status texts of the gateway, in webhooks and in answers to a poll.
GatewayStatuses == {"completed", "succeeded", "failed", NULL_STR}

CheckoutWebhooks ==
  [id : {"p1"}, payment_request_id : {NULL_STR}, status : GatewayStatuses,
   payments : {NULL_STR}]

CheckoutInit ==
  /\ reservation = <<>>
  /\ notification = <<>>
  /\ inflight = EmptyBag
  /\ response = 0
  /\ issued = 0
  /\ body = ""
  /\ orders \in {<<>>, <<StoredOrder>>}
  /\ payment_transactions = <<>>
  /\ order_item = <<>>
  /\ table = <<>>
  /\ cart = <<>>
  /\ payment = <<>>
  /\ listed = {}

CheckoutNext ==
  \/ Receive /\ CreateOrder("c1", NULL_ID, NULL_ID, <<[item_id |-> 7, price |-> 5, quantity |-> 2]>>, 0, 1)
  \/ \E r \in BagToSet(inflight) : CreateOrderItem(r)
  \/ \E r \in BagToSet(inflight) : CreateOrderItemsDone(r)
  \/ Receive /\ \E id \in OrderIds, s \in {"preparing", "completed", "bogus"} : StaffOrderStatusUpdate(StaffToken, id, s)
  \/ Receive /\ \E m \in {NULL_STR, "cash"}, ps \in {NULL_STR, "paid", "completed"} : CreatePayment("c1", 1, m, ps)
  \/ Receive /\ \E order_id \in {NULL_ID, 1}, ok \in BOOLEAN : HitpayCreate(order_id, 10, "c1@example.com", ok, "p1")
  \/ Receive /\ \E webhook \in CheckoutWebhooks : HitpayCallbackUpdate(webhook)
  \/ \E r \in BagToSet(inflight) : HitpayCallbackSelect(r)
  \/ \E r \in BagToSet(inflight) : HitpayCallbackOrder(r)
  \/ Receive /\ HitpayStatus("p1")
  \/ \E r \in BagToSet(inflight) : \E ok \in BOOLEAN, status \in GatewayStatuses : HitpayStatusVerify(r, ok, status)
  \/ \E r \in BagToSet(inflight) : HitpayStatusOrder(r)

SpecCheckout == CheckoutInit /\ [][CheckoutNext]_vars

----------------------------------------------------------------------------
(* One floor-plan query or one create request against stored tables and   *)
(* stored reservations                                                     *)

\* Table 1 of restaurant 1, open for booking, and a table 2 of either
\* restaurant, open or not.
FloorTables ==
  {<<[restaurant_id |-> 1, table_number |-> "A1", capacity |-> 2, is_available |-> TRUE],
     [restaurant_id |-> rid, table_number |-> "A2", capacity |-> 4, is_available |-> a]>> :
     rid \in Restaurants, a \in BOOLEAN}

FloorInit ==
  /\ reservation \in {<<a>> : a \in AvailRows}
                    \cup {<<a, b>> : a \in AvailRows, b \in AvailSecondRows}
  /\ notification = <<>>
  /\ inflight = EmptyBag
  /\ response = 0
  /\ issued = 0
  /\ body = ""
  /\ orders = <<>>
  /\ payment_transactions = <<>>
  /\ order_item = <<>>
  /\ table \in FloorTables
  /\ cart = <<>>
  /\ payment = <<>>
  /\ listed = {}

\* Restaurant 1 on date 1, at any of the times.
FloorNext ==
  \/ issued = 0 /\ issued' = 1 /\ \E t \in AvailTimes : GetFloorPlan(1, 1, t)
  \/ /\ issued = 0
     /\ issued' = 1
     /\ \E tid \in AvailTables, t \in AvailTimes :
          CreateReservationCheck("c2", 1, tid, 1, t, 2)
  \/ \E r \in BagToSet(inflight) : CreateReservationInsert(r)
  \/ \E r \in BagToSet(inflight) : CreateReservationNotify(r)

SpecFloor == FloorInit /\ [][FloorNext]_vars

----------------------------------------------------------------------------
(* Staff decisions on stored cancellation requests, concurrently *)

\* Reservation 1 of the restaurant of the staff token, its cancellation
\* requested; reservation 2 of either restaurant, requested or confirmed.
DecideRows ==
  {<<[customer_id |-> "c1", restaurant_id |-> StaffToken, table_id |-> 1,
      reservation_date |-> 1, reservation_time |-> 1080,
      status |-> "cancellation_requested",
      cancellation_reason |-> <<"b", "u", "s", "y">>],
     [customer_id |-> "c2", restaurant_id |-> rid, table_id |-> 2,
      reservation_date |-> 1, reservation_time |-> 1080, status |-> s,
      cancellation_reason |-> IF s = "confirmed" THEN NULL_TEXT ELSE <<"i", "l", "l">>]>> :
     rid \in Restaurants, s \in {"cancellation_requested", "confirmed"}}

DecideInit ==
  /\ reservation \in DecideRows
  /\ notification = <<>>
  /\ inflight = EmptyBag
  /\ response = 0
  /\ issued = 0
  /\ body = ""
  /\ orders = <<>>
  /\ payment_transactions = <<>>
  /\ order_item = <<>>
  /\ table = <<>>
  /\ cart = <<>>
  /\ payment = <<>>
  /\ listed = {}

DecideNext ==
  \/ Receive /\ \E id \in DOMAIN reservation : ApproveCancellationUpdate(StaffToken, id)
  \/ \E r \in BagToSet(inflight) : ApproveCancellationNotify(r)
  \/ Receive /\ \E id \in DOMAIN reservation : RejectCancellationUpdate(StaffToken, id)
  \/ \E r \in BagToSet(inflight) : RejectCancellationNotify(r)

SpecDecide == DecideInit /\ [][DecideNext]_vars

----------------------------------------------------------------------------
(* Staff requests on the tables of the restaurants *)

\* Table numbers a client sends: none, blank, A1, A1 between spaces, B2.
TableNumberInputs == {NULL_STR, "  ", "A1", " A1 ", "B2"}

\* Capacities a client sends: none (0), 4, 9.
CapacityInputs == {0, 4, 9}

\* The table ids a client may name: the rows there are and the next id.
TableIds == 1..(Len(table) + 1)

TablesInit ==
  /\ reservation = <<>>
  /\ notification = <<>>
  /\ inflight = EmptyBag
  /\ response = 0
  /\ issued = 0
  /\ body = ""
  /\ orders = <<>>
  /\ payment_transactions = <<>>
  /\ order_item = <<>>
  /\ table = <<>>
  /\ cart = <<>>
  /\ payment = <<>>
  /\ listed = {}

TablesNext ==
  \/ Receive /\ \E sr \in Restaurants, n \in TableNumberInputs, c \in CapacityInputs : AddTableCheck(sr, n, c)
  \/ \E r \in BagToSet(inflight) : AddTableInsert(r)
  \/ Receive /\ \E sr \in Restaurants, id \in TableIds, n \in TableNumberInputs, c \in CapacityInputs, a \in BOOLEAN : UpdateTableCheck(sr, id, n, c, a)
  \/ \E r \in BagToSet(inflight) : UpdateTableExisting(r)
  \/ \E r \in BagToSet(inflight) : UpdateTableSet(r)
  \/ Receive /\ \E sr \in Restaurants, id \in TableIds : DeleteTable(sr, id)

SpecTables == TablesInit /\ [][TablesNext]_vars

----------------------------------------------------------------------------
(* Properties *)

\* The request r, suspended at pc, takes its step.
Steps(r, op, pc) ==
  /\ Running(r, op, pc)
  /\ CopiesIn(r, inflight') < CopiesIn(r, inflight)

\* One more request is suspended after the step: the request q.
Suspends(q) ==
  /\ CopiesIn(q, inflight') = CopiesIn(q, inflight) + 1
  /\ BagCardinality(inflight') = BagCardinality(inflight) + 1

\* An active reservation: it has a status, neither cancelled nor no-show.
Active(row) == row.status \in Statuses \ {"cancelled", "no-show"}

\* The service windows [t1, t1 + 2h) and [t2, t2 + 2h) overlap.
WindowsOverlap(t1, t2) == t1 < t2 + TwoHours /\ t2 < t1 + TwoHours

\* The row a create request inserts.
PendingRow(r) ==
  [customer_id |-> r.user_id, restaurant_id |-> r.restaurant_id,
   table_id |-> r.table_id, reservation_date |-> r.reservation_date,
   reservation_time |-> r.reservation_time, status |-> "pending",
   cancellation_reason |-> NULL_TEXT]

\* C1: in every reachable state, no two distinct active reservations of the
\* same table (not null) and date have times less than 2 hours apart.
\* The API does not keep this: stated here as the invariant it violates.
C1_NoDoubleBooking ==
  \A i, j \in DOMAIN reservation :
    ( /\ i # j
      /\ reservation[i].table_id # NULL_ID
      /\ reservation[i].table_id = reservation[j].table_id
      /\ reservation[i].reservation_date = reservation[j].reservation_date
      /\ Active(reservation[i]) /\ Active(reservation[j]) )
    => ~WindowsOverlap(reservation[i].reservation_time, reservation[j].reservation_time)

\* C2: the INSERT of a create request is a step of its own, taken without
\* looking at the table again: whenever a create request that has passed its
\* availability SELECT takes its next step, that step appends the request's
\* row with status 'pending', whatever other requests have inserted since
\* the SELECT.  So two concurrent requests for one slot that both passed
\* the check both insert (the witness).
C2_InsertDoesNotRecheck ==
  [][\A r \in BagToSet(inflight) :
       Steps(r, "create", "insert") =>
         reservation' = Append(reservation, PendingRow(r))]_vars

\* C2 witness: only two requests were ever received, and the table holds
\* two pending reservations of one restaurant, table, date and time.
C2_DoubleBooked ==
  /\ issued = 2
  /\ Len(reservation) = 2
  /\ reservation[1].table_id # NULL_ID
  /\ reservation[1].status = "pending" /\ reservation[2].status = "pending"
  /\ reservation[1].restaurant_id = reservation[2].restaurant_id
  /\ reservation[1].table_id = reservation[2].table_id
  /\ reservation[1].reservation_date = reservation[2].reservation_date
  /\ reservation[1].reservation_time = reservation[2].reservation_time

\* A stored reservation whose service window overlaps the requested one:
\* same restaurant, table and date, not cancelled and not a no-show.
WindowConflict(rows, restaurant_id, table_id, reservation_date, reservation_time) ==
  \E i \in DOMAIN rows :
    /\ rows[i].restaurant_id = restaurant_id
    /\ rows[i].table_id = table_id
    /\ rows[i].reservation_date = reservation_date
    /\ Active(rows[i])
    /\ WindowsOverlap(rows[i].reservation_time, reservation_time)

\* The step answers 400 and suspends nothing.
Rejected400 == response' = 400 /\ inflight' = inflight

\* C3: for every stored set of reservations and every request that names a
\* table, the availability check of create reservation reports a conflict
\* (the request is answered 400) exactly when a stored active reservation of
\* the same restaurant, table and date has a 2-hour window overlapping the
\* requested one, at every time of day.  The SELECT does not do this from
\* 22:00 on: stated here as the property it violates.
C3_ConflictIffWindowsOverlap ==
  [][\A t \in AvailTimes :
       CreateReservationCheck("c2", 1, 1, 1, t, 2) =>
         (Rejected400 <=> WindowConflict(reservation, 1, 1, 1, t))]_vars

\* C4: with one active reservation on table T at time t, a request for T on
\* the same date at r with t < r < t + 2h is rejected, and a request at
\* r = t + 2h or r = t - 2h is accepted.  Fails with C3 for t >= 22:00.
C4_OverlapRejectedTouchAccepted ==
  [][\A r \in AvailTimes :
       ( /\ CreateReservationCheck("c2", 1, 1, 1, r, 2)
         /\ Len(reservation) = 1
         /\ reservation[1].restaurant_id = 1 /\ reservation[1].table_id = 1
         /\ reservation[1].reservation_date = 1
         /\ Active(reservation[1]) )
       => LET t == reservation[1].reservation_time
          IN  /\ (t < r /\ r < t + TwoHours) => Rejected400
              /\ (r = t + TwoHours \/ r = t - TwoHours) => ~Rejected400]_vars

\* C5: a create request with all required fields and no table id is never
\* rejected, whatever the table holds: its first step suspends it before the
\* INSERT without answering, its INSERT appends a 'pending' row with a null
\* table id, and its last step answers 201.
C5_NoTableAlwaysAccepted ==
  [][ /\ \A t \in AvailTimes :
           CreateReservationCheck("c2", 1, NULL_ID, 1, t, 2) =>
             /\ response' = response
             /\ \E q \in BagToSet(inflight') :
                  /\ Suspends(q)
                  /\ q.op = "create" /\ q.pc = "insert" /\ q.user_id = "c2"
                  /\ q.restaurant_id = 1 /\ q.table_id = NULL_ID
                  /\ q.reservation_date = 1 /\ q.reservation_time = t
      /\ \A r \in BagToSet(inflight) :
           (Steps(r, "create", "insert") /\ r.table_id = NULL_ID) =>
             /\ reservation' = Append(reservation, PendingRow(r))
             /\ PendingRow(r).table_id = NULL_ID /\ PendingRow(r).status = "pending"
             /\ response' = response
      /\ \A r \in BagToSet(inflight) :
           (Steps(r, "create", "notify") /\ r.table_id = NULL_ID) =>
             response' = 201 ]_vars

\* C5 witness: the request without a table was answered 201 and its pending
\* row stands beside an active reservation of the same restaurant, date and
\* time that names no table either.
C5_AcceptedBesideActive ==
  /\ response = 201
  /\ Len(reservation) >= 2
  /\ LET new == reservation[Len(reservation)]
     IN  /\ new.table_id = NULL_ID /\ new.status = "pending"
         /\ new.customer_id = "c2"
         /\ \E i \in 1..(Len(reservation) - 1) :
              /\ reservation[i].table_id = NULL_ID
              /\ reservation[i].status = "confirmed"
              /\ reservation[i].restaurant_id = new.restaurant_id
              /\ reservation[i].reservation_date = new.reservation_date
              /\ reservation[i].reservation_time = new.reservation_time

----------------------------------------------------------------------------

\* The edges of the lifecycle graph: pending -> confirmed -> completed,
\* pending|confirmed -> cancellation_requested -> {cancelled, confirmed},
\* pending|confirmed -> cancelled|no-show.
PermittedTransitions ==
  {<<"pending", "confirmed">>, <<"confirmed", "completed">>,
   <<"cancellation_requested", "cancelled">>,
   <<"cancellation_requested", "confirmed">>}
  \cup ({"pending", "confirmed"} \X {"cancellation_requested", "cancelled", "no-show"})

\* C6: no step changes the status of a reservation along an edge outside
\* the permitted graph; in particular a completed, cancelled or no-show
\* reservation keeps its status.
C6_OnlyPermittedTransitions ==
  [][\A id \in DOMAIN reservation :
       reservation'[id].status # reservation[id].status
         => <<reservation[id].status, reservation'[id].status>> \in PermittedTransitions]_vars

\* C7: a request-cancellation changes the reservation only when the row
\* exists, is the caller's and is pending or confirmed, and then it sets
\* cancellation_requested and goes on to notify the staff and answer 200;
\* every other request-cancellation answers 400 (after its UPDATE at the
\* latest) and leaves the reservations and the notifications as they were.
C7_RequestCancellationIffOwnedAndOpen ==
  [][/\ \A c \in Customers, id \in Ids, why \in Reasons :
          RequestCancellation(c, id, why) =>
            IF RequestCancellationMatches(reservation, c, id)
            THEN /\ reservation'[id].status = "cancellation_requested"
                 /\ \E q \in BagToSet(inflight') :
                      /\ Suspends(q)
                      /\ q.op = "request-cancellation" /\ q.pc = "notify"
                      /\ q.id = id
            ELSE /\ reservation' = reservation
                 /\ notification' = notification
                 /\ id \in DOMAIN reservation => Rejected400
     /\ \A r \in BagToSet(inflight) :
          Steps(r, "request-cancellation", "update") =>
            IF RequestCancellationMatches(reservation, r.user_id, r.id)
            THEN /\ reservation'[r.id].status = "cancellation_requested"
                 /\ \E q \in BagToSet(inflight') :
                      /\ Suspends(q)
                      /\ q.op = "request-cancellation" /\ q.pc = "notify"
                      /\ q.id = r.id
            ELSE /\ reservation' = reservation
                 /\ notification' = notification
                 /\ response' = 400
     /\ \A r \in BagToSet(inflight) :
          Steps(r, "request-cancellation", "notify") =>
            /\ notification' = Append(notification,
                 [restaurant_id |-> reservation[r.id].restaurant_id,
                  customer_id |-> NULL_STR, type |-> "cancellation_request",
                  reservation_id |-> r.id])
            /\ reservation' = reservation
            /\ response' = 200]_vars

\* The first n characters of the text s are the text t.
IsPrefix(t, s, n) == Len(t) = n /\ \A i \in 1..n : t[i] = s[i]

\* The reason stored by the step of a request-cancellation that updates
\* the row id.
StoredReason(id) == reservation'[id].cancellation_reason

\* C8 as stated: for every reason string, the empty one too, the reason
\* stored by a successful request-cancellation is the first
\* min(length, 500) characters of the reason.
C8_EveryReasonStoredAsPrefix ==
  [][\A c \in Customers, id \in DOMAIN reservation, why \in ReasonInputs \ {NULL_TEXT} :
       RequestCancellation(c, id, why) /\ RequestCancellationMatches(reservation, c, id)
         => IsPrefix(StoredReason(id), why, Min(Len(why), ReasonMax))]_vars

\* C8: for every non-empty reason string the reason stored by a successful
\* request-cancellation is the first min(length, 500) characters of the
\* reason, at most 500 characters; an empty or missing reason is stored
\* as NULL.
C8_NonEmptyReasonStoredAsPrefix ==
  [][\A c \in Customers, id \in DOMAIN reservation, why \in ReasonInputs :
       RequestCancellation(c, id, why) /\ RequestCancellationMatches(reservation, c, id)
         => IF why = NULL_TEXT \/ Len(why) = 0
            THEN StoredReason(id) = NULL_TEXT
            ELSE /\ IsPrefix(StoredReason(id), why, Min(Len(why), ReasonMax))
                 /\ Len(StoredReason(id)) <= ReasonMax]_vars

\* A reason of MaxReasonLen characters was sent and 500 of them are stored.
C8_LongReasonCut ==
  \E r \in BagToSet(inflight) :
    /\ r.op = "request-cancellation" /\ r.pc = "notify"
    /\ r.reason # NULL_TEXT /\ Len(r.reason) = MaxReasonLen
    /\ Len(r.reason) > ReasonMax
    /\ reservation[r.id].status = "cancellation_requested"
    /\ reservation[r.id].cancellation_reason # NULL_TEXT
    /\ Len(reservation[r.id].cancellation_reason) = ReasonMax

\* The customer notification of a type about the reservation id.
CustomerNotice(id, type) ==
  [restaurant_id |-> NULL_ID, customer_id |-> reservation[id].customer_id,
   type |-> type, reservation_id |-> id]

\* The notification types created so far, in order.
NotificationTypes == [i \in 1..Len(notification) |-> notification[i].type]

C11_NotRequestedRejected ==
  [][\A sr \in Restaurants, id \in DOMAIN reservation :
       /\ ApproveCancellationUpdate(sr, id) \/ RejectCancellationUpdate(sr, id)
       /\ reservation[id].status # "cancellation_requested"
       => /\ response' = 404
          /\ reservation' = reservation
          /\ notification' = notification
          /\ inflight' = inflight]_vars

\* A reservation just created, no cancellation ever requested: the approve
\* or reject (the second request) was answered 404 and the reservation is
\* pending as before.
C11_PendingNotApproved ==
  /\ issued = 2
  /\ Len(reservation) = 1
  /\ reservation[1].status = "pending"
  /\ reservation[1].cancellation_reason = NULL_TEXT
  /\ NotificationTypes = <<"reservation_new">>
  /\ inflight = EmptyBag
  /\ response = 404
  /\ body = "Cancellation request not found or already processed"

\* The response 404 with the text, and nothing else changed.
NotFoundUnchanged(text) ==
  /\ response' = 404
  /\ body' = text
  /\ UNCHANGED <<reservation, notification, inflight, orders, payment_transactions>>

\* The staff request of the step names the reservation id.
StaffReservationStep(sr, id) ==
  \/ \E s \in StatusInputs : StaffStatusUpdate(sr, id, s)
  \/ ApproveCancellationUpdate(sr, id)
  \/ RejectCancellationUpdate(sr, id)

\* C12: a direct status set, approve or reject by staff on a reservation
\* of another restaurant than that of the staff token answers 404 and
\* leaves the reservations and the notifications unchanged (and no request
\* behind that would change them).
C12_OtherVenueNotFound ==
  [][\A id \in DOMAIN reservation :
       /\ StaffReservationStep(StaffToken, id)
       /\ reservation[id].restaurant_id # StaffToken
       => NotFoundUnchanged("Reservation not found")]_vars

\* The one staff request, on a cancellation_requested reservation of the
\* other restaurant, was answered 404 and the reservation is as it was.
C12_ForeignRequestKept ==
  /\ issued = 1
  /\ reservation[1].restaurant_id # StaffToken
  /\ reservation[1].status = "cancellation_requested"
  /\ reservation[1].cancellation_reason # NULL_TEXT
  /\ notification = <<>>
  /\ inflight = EmptyBag
  /\ response = 404
  /\ body = "Reservation not found"

\* C13: to a staff request that names a reservation or an order outside
\* the restaurant of the staff token the response is the same 404 with
\* the same text, and nothing is changed, whether the id names a row of
\* another restaurant or no row at all.
C13_ForeignAsMissing ==
  [][/\ \A id \in Ids :
          /\ StaffReservationStep(StaffToken, id)
          /\ \/ id \notin DOMAIN reservation
             \/ reservation[id].restaurant_id # StaffToken
          => NotFoundUnchanged("Reservation not found")
     /\ \A id \in OrderIds, s \in OrderStatusInputs :
          /\ StaffOrderStatusUpdate(StaffToken, id, s)
          /\ \/ id \notin DOMAIN orders
             \/ orders[id].restaurant_id # StaffToken
          => NotFoundUnchanged("Order not found")]_vars

\* The one staff request, an order status set, was answered 404 where the
\* only order is one of the other restaurant.
C13_ForeignOrderHidden ==
  /\ issued = 1
  /\ Len(orders) = 1
  /\ orders[1].restaurant_id # StaffToken
  /\ response = 404
  /\ body = "Order not found"

\* C14: the customer update (PUT /api/reservations/:id) changes the status
\* of no reservation; of the customer's requests only request-cancellation
\* changes a status.
C14_CustomerUpdateKeepsStatus ==
  [][\A c \in Customers, id \in Ids, s \in StatusInputs :
       UpdateReservation(c, id, s)
         => \A i \in DOMAIN reservation :
              reservation'[i].status = reservation[i].status]_vars

NotifyingOps ==
  {"create", "request-cancellation", "staff-status", "approve-cancellation",
   "reject-cancellation"}

\* C16: the notify step of a create, request-cancellation, direct status
\* set, approve or reject, whether its INSERT records the notification or
\* throws, changes no reservation (the change the handler made before
\* stays) and answers the success response of the handler, never an error.
C16_NotificationFailureSwallowed ==
  [][\A r \in BagToSet(inflight) :
       r.op \in NotifyingOps /\ Steps(r, r.op, "notify")
       => /\ reservation' = reservation
          /\ response' = (IF r.op = "create" THEN 201 ELSE 200)
          /\ \/ notification' = notification
             \/ /\ Len(notification') = Len(notification) + 1
                /\ SubSeq(notification', 1, Len(notification)) = notification]_vars

\* The create was answered 201 and its reservation is stored, though its
\* reservation_new notification was not recorded.
C16_CreatedWithoutNotification ==
  /\ issued = 1
  /\ Len(reservation) = 1
  /\ reservation[1].status = "pending"
  /\ notification = <<>>
  /\ inflight = EmptyBag
  /\ response = 201

\* C17: every notification row has exactly one target: a restaurant (staff
\* inbox) or a customer (customer inbox), never both and never neither.
C17_SingleTarget ==
  \A i \in 1..Len(notification) :
    (notification[i].restaurant_id # NULL_ID) # (notification[i].customer_id # NULL_STR)

\* Notifications of both kinds were created: one for a restaurant and one
\* for a customer.
C17_BothInboxes ==
  /\ \E i \in 1..Len(notification) :
       notification[i].restaurant_id # NULL_ID /\ notification[i].customer_id = NULL_STR
  /\ \E j \in 1..Len(notification) :
       notification[j].customer_id # NULL_STR /\ notification[j].restaurant_id = NULL_ID

\* The tables after the webhook is handled once / twice in a row.
CallbackOnce(webhook) == hitpayCallback(payment_transactions, orders, webhook)
CallbackTwice(webhook) ==
  hitpayCallback(CallbackOnce(webhook)[1], CallbackOnce(webhook)[2], webhook)

\* C18: in every state, for every webhook of the gateway, handling the
\* webhook twice in a row leaves the payment transactions (status and
\* transaction id) and the orders (payment_status and payment_method) as
\* handling it once does.
C18_CallbackIdempotent ==
  \A webhook \in Webhooks : CallbackTwice(webhook) = CallbackOnce(webhook)

\* Two callbacks were handled; the transaction of p1 is completed with the
\* transaction id of the webhook and its order is paid through the gateway:
\* the tables are those the completed webhook leaves, and a failed webhook
\* would change them.
C18_CompletedApplied ==
  /\ issued = 2
  /\ inflight = EmptyBag
  /\ response = 200
  /\ body = "completed"
  /\ \E i \in DOMAIN payment_transactions :
       /\ payment_transactions[i].payment_id = "p1"
       /\ payment_transactions[i].status = "completed"
       /\ payment_transactions[i].transaction_id = "t1"
  /\ orders[1].payment_status = "paid"
  /\ orders[1].payment_method = "hitpay"
  /\ \E webhook \in Webhooks :
       /\ mappedStatus(webhook.status) = "completed"
       /\ CallbackOnce(webhook) = <<payment_transactions, orders>>
  /\ \E webhook \in Webhooks :
       CallbackOnce(webhook) # <<payment_transactions, orders>>

\* Terminal statuses of a payment transaction.
TerminalPaymentStatuses == {"completed", "failed", "expired"}

\* C19: no step changes the status of a payment transaction whose status
\* is terminal (completed, failed or expired).
C19_TerminalStatusKept ==
  [][\A i \in DOMAIN payment_transactions :
       payment_transactions[i].status \in TerminalPaymentStatuses
         => payment_transactions'[i].status = payment_transactions[i].status]_vars

\* The staff notification of a type about the reservation id.
StaffNotice(id, type) ==
  [restaurant_id |-> reservation[id].restaurant_id, customer_id |-> NULL_STR,
   type |-> type, reservation_id |-> id]

C21_RejectedCreateChangesNothing ==
  [][\A b \in Bookings :
       \A rid \in {b.restaurant_id, NULL_ID}, tid \in {b.table_id, NULL_ID}, d \in Dates \cup {NULL_ID}, t \in Times \cup {NULL_TIME}, ps \in {NULL_ID, 2} :
         /\ CreateReservationCheck(b.customer_id, rid, tid, d, t, ps)
         /\ \/ rid = NULL_ID \/ d = NULL_ID \/ t = NULL_TIME \/ ps = NULL_ID
            \/ /\ tid # NULL_ID
               /\ checkAvailability(reservation, rid, tid, d, t) # {}
         => /\ response' = 400
            /\ reservation' = reservation
            /\ notification' = notification
            /\ inflight' = inflight]_vars

\* The second request, a create for the table and time of the first, was
\* answered 400 for the conflict: there is the one reservation and its one
\* notification, as before.
C21_ConflictRejected ==
  /\ issued = 2
  /\ Len(reservation) = 1
  /\ reservation[1].table_id # NULL_ID
  /\ NotificationTypes = <<"reservation_new">>
  /\ inflight = EmptyBag
  /\ response = 400
  /\ body = "This table is not available for the selected time slot. Please choose a different time or table."

\* subtotal summed over the order_item rows of order id
RECURSIVE SubtotalsOf(_, _)
SubtotalsOf(rows, id) ==
  IF rows = <<>> THEN 0
  ELSE (IF rows[1].order_id = id THEN rows[1].subtotal ELSE 0)
       + SubtotalsOf(Tail(rows), id)

\* The create-order handler of order id has left its loop: all of its
\* order_item rows are inserted.
ItemsInserted(id) ==
  \A r \in BagToSet(inflight) :
    r.op = "create-order" /\ r.id = id => r.pc # "items"

\* C23: every order whose create-order handler is past its loop has a
\* total_amount equal to the sum of the subtotals of its order_item rows.
C23_TotalIsSumOfSubtotals ==
  \A id \in DOMAIN orders :
    ItemsInserted(id) => orders[id].total_amount = SubtotalsOf(order_item, id)

\* Row i of orders is left as it was, but for the columns named.
OrderKept(i, columns) ==
  /\ i \in DOMAIN orders'
  /\ \A c \in DOMAIN orders[i] \ columns : orders'[i][c] = orders[i][c]

\* C22: the staff order status set changes no column of any order but the
\* status of the order named; the UPDATE of orders of the payment callback
\* changes no column but payment_status and payment_method and inserts no
\* row; a step that adds an order adds one row, with status pending,
\* payment_status unpaid and no payment_method, and changes no other row.
C22_StatusAndPaymentIndependent ==
  [][/\ \A id \in OrderIds, s \in OrderStatusInputs :
          StaffOrderStatusUpdate(StaffToken, id, s)
            => /\ Len(orders') = Len(orders)
               /\ \A i \in DOMAIN orders :
                    OrderKept(i, IF i = id THEN {"status"} ELSE {})
     /\ \A r \in BagToSet(inflight) :
          HitpayCallbackOrder(r)
            => /\ Len(orders') = Len(orders)
               /\ \A i \in DOMAIN orders :
                    OrderKept(i, IF i = r.id THEN {"payment_status", "payment_method"} ELSE {})
     /\ Len(orders') > Len(orders)
          => /\ Len(orders') = Len(orders) + 1
             /\ \A i \in DOMAIN orders : OrderKept(i, {})
             /\ orders'[Len(orders')].status = "pending"
             /\ orders'[Len(orders')].payment_status = "unpaid"
             /\ orders'[Len(orders')].payment_method = NULL_STR]_vars

\* An order set to preparing by the staff and marked paid by a callback:
\* each of the two has left the column of the other as it was.
C22_PreparingAndPaid ==
  /\ inflight = EmptyBag
  /\ \E i \in DOMAIN orders :
       /\ orders[i].status = "preparing"
       /\ orders[i].payment_status = "paid"
       /\ orders[i].payment_method = "hitpay"

\* C24: after a payment recorded as paid or completed for a stored order
\* through POST /api/payments, the order's payment_status is no longer
\* unpaid.
C24_RecordedPaymentMarksOrder ==
  [][\A m \in {NULL_STR, "cash"}, ps \in {"paid", "completed"} :
       CreatePayment("c1", 1, m, ps) /\ 1 \in DOMAIN orders
         => orders'[1].payment_status # "unpaid"]_vars

\* C28: an order is paid by hitpay only if one of its payment transactions
\* is completed.
C28_PaidOnlyWithCompletedTransaction ==
  \A i \in DOMAIN orders :
    orders[i].payment_status = "paid" /\ orders[i].payment_method = "hitpay"
      => \E t \in DOMAIN payment_transactions :
           /\ payment_transactions[t].order_id = i
           /\ payment_transactions[t].status = "completed"

\* C29: a poll answered by the gateway with a status text does with it what
\* the callback does: it goes on to mark the order paid exactly when the
\* callback's mapping of the text is completed, and otherwise answers with
\* the callback's mapping of the text.
C29_PollMapsAsCallback ==
  [][\A r \in BagToSet(inflight), s \in GatewayStatuses :
       HitpayStatusVerify(r, TRUE, s)
         => IF mappedStatus(s) = "completed"
            THEN inflight' = (inflight (-) SetToBag({r}))
                               (+) SetToBag({[r EXCEPT !.pc = "order", !.status = "completed"]})
            ELSE inflight' = inflight (-) SetToBag({r}) /\ body' = mappedStatus(s)]_vars

\* C25: the floor plan of restaurant 1 for a date and a time lists a table
\* of the restaurant that is flagged is_available exactly when the
\* availability SELECT of a create request for that table, date and time
\* returns no row.
C25_FloorPlanAgreesWithCheck ==
  [][\A t \in AvailTimes :
       GetFloorPlan(1, 1, t)
         => \A tid \in DOMAIN table :
              table[tid].restaurant_id = 1 /\ table[tid].is_available
                => (tid \in listed' <=> checkAvailability(reservation, 1, tid, 1, t) = {})]_vars

\* The decisions taken on reservation id: the customer notifications about
\* it and the requests that have won their UPDATE and not yet notified.
Decisions(notes, requests, id) ==
  Cardinality({i \in DOMAIN notes : notes[i].reservation_id = id})
    + BagCardinality([r \in {q \in BagToSet(requests) : q.id = id} |->
                        CopiesIn(r, requests)])

\* Every decision on reservation id is of the kind its status shows.
DecisionsMatch(rows, notes, requests, id) ==
  /\ \A i \in DOMAIN notes :
       notes[i].reservation_id = id
         => notes[i].type = (IF rows[id].status = "cancelled"
                             THEN "cancellation_approved"
                             ELSE "cancellation_rejected")
  /\ \A q \in BagToSet(requests) :
       q.id = id
         => q.op = (IF rows[id].status = "cancelled"
                    THEN "approve-cancellation" ELSE "reject-cancellation")

C27_ReasonOnlyWhileRequested ==
  \A id \in DOMAIN reservation :
    reservation[id].cancellation_reason # NULL_TEXT
      => reservation[id].status = "cancellation_requested"

\* C30: no two tables of one restaurant have the same trimmed number, and
\* every table has a capacity between 1 and 8.
C30_UniqueNumbersAndCapacity ==
  \A i \in DOMAIN table :
    table[i] # NoTable
      => /\ table[i].capacity \in 1..8
         /\ \A j \in DOMAIN table :
              /\ j # i
              /\ table[j].restaurant_id = table[i].restaurant_id
              => trim(table[j].table_number) # trim(table[i].table_number)

============================================================================
